---------------------------- MODULE Spec2Model ----------------------------
(***************************************************************************)
(* A state-machine model of the nft_inspector inspection pipeline:         *)
(*   - chains/web3_wrapper.py   error categorisation and the async batch   *)
(*   - chains/chain_provider.py RPC endpoint selection                     *)
(*   - proxy_detector.py        the four-step proxy detection              *)
(*   - client.py                NFTInspector.inspect_token                 *)
(* Each component has its own variables and its own specification; a       *)
(* specification leaves the variables of the other components untouched.   *)
(***************************************************************************)
EXTENDS Integers, Sequences, FiniteSets, TLC

VARIABLES
    \* ---- web3_wrapper.py: _handle_exception ----
    exc,            \* the exception handed to _handle_exception ("none" before)
    handled,        \* the RpcErrorType it was mapped to ("none" before the call)
    \* ---- web3_wrapper.py: async_batch_call_contract_functions ----
    batchPc,        \* "idle" | "running" | "returned"
    contract_functions, \* the input list: what each call will do when run
    taskResult,     \* per input index: Pending or the RpcResult of that task
    completed,      \* indices in the order the executor finished them
    batchReturn,    \* the list the batch call returned
    \* ---- chain_provider.py: ChainProvider ----
    chains,         \* self.chains: chain id -> the schemes of its rpc list, in order
    selPc,          \* get_working_rpc_url: "idle" | "iterating" | "probing" | "returned"
    selChain,       \* its chain_id argument
    idx,            \* the position of the for loop in chain_info.rpc
    replies,        \* per endpoint: the reply its probe got (Unprobed if none was sent)
    selResult,      \* the value returned: the endpoint's position, NoUrl for None
    \* ---- client.py: NFTInspector ----
    rpc_url,        \* self.rpc_url: None or "override"
    chain_id,       \* self.chain_id
    analyze_media,  \* self.analyze_media
    analyze_trust,  \* self.analyze_trust
    w3,             \* self.w3: NoW3 or the connection made
    connection_initialized, \* self._connection_initialized
    pc,             \* where inspect_token stands ("idle" when not running)
    address_valid,  \* whether the contract_address argument is an address
    contract_call_issued,   \* a contract call went out in this inspect_token
    locals,         \* the local variables of inspect_token (the TokenInfo fields)
    error,          \* the exception that left inspect_token, None if none
    inspections,    \* how many inspect_token calls were made on this inspector
    \* ---- proxy_detector.py: ProxyDetector ----
    detPc,          \* detect_proxy_standard: "idle", the step about to run, "done"
    reads,          \* what the node answered to each read the detector made
    probes,         \* the reads and calls issued so far, in order
    step_results,   \* what each finished step returned (NoProxyInfo for None)
    proxy_info,     \* the ProxyInfo detect_proxy_standard returned
    \* ---- the functions that keep no state between calls ----
    last_call,      \* the last call made: its name, its arguments, what it gave
    \* ---- api/database/__init__.py: DatabaseSingleton ----
    lock,           \* _lock: the coroutine that holds it, Nobody if free
    initialized,    \* _initialized
    database_manager,   \* _database_manager: NoManager or the instance created
    callerPc,       \* per caller of get_manager: where it stands
    received,       \* per caller: the manager get_manager returned to it
    loop_thread,    \* Nobody, or the coroutine that keeps the loop's thread waiting
    initialize_runs,    \* how many times the backend's initialize() was started
    failures,       \* how many of these runs raised
    get_manager_calls,  \* how many get_manager calls were made
    \* ---- api/database/blob.py: BlobManager ----
    nft_blobs,      \* per path of _get_nft_path: the analysis stored there, if any
    leaderboards,   \* per path of _get_leaderboard_path: the entries of the blob
    stats_blob,     \* stats/global.json
    storePc,        \* per store_nft_analysis call: where it stands
    storeLocal,     \* per call: its token_info, the statistics it read, its attempt
    overlapped,     \* a store began while another was under way
    service_up,     \* the blob service answers
    outages         \* how many times it has failed

excVars   == <<exc, handled>>
batchVars == <<batchPc, contract_functions, taskResult, completed, batchReturn>>
selVars   == <<selPc, selChain, idx, replies, selResult>>
inspVars  == <<rpc_url, chain_id, analyze_media, analyze_trust, w3,
               connection_initialized, pc, address_valid, contract_call_issued,
               locals, error, inspections>>
proxyVars == <<detPc, reads, probes, step_results, proxy_info>>
singletonVars == <<lock, initialized, database_manager, callerPc, received,
                    loop_thread, initialize_runs, failures, get_manager_calls>>
blobVars  == <<nft_blobs, leaderboards, stats_blob, storePc, storeLocal, overlapped,
               service_up, outages>>
vars      == <<excVars, batchVars, chains, selVars, inspVars, proxyVars, last_call,
               singletonVars, blobVars>>

None == "None"

Range(s) == {s[i] : i \in DOMAIN s}

-----------------------------------------------------------------------------
(***************************************************************************)
(* types.py: RpcErrorType and RpcResult                                    *)
(***************************************************************************)
RpcErrorType ==
    {"success", "rpc_error", "contract_not_found", "function_not_found",
     "execution_reverted", "custom_error", "panic_error", "timeout",
     "network_error", "unknown_error"}

success_result(result) ==
    [success |-> TRUE, error_type |-> "success", result |-> result]

error_result(error_type) ==
    [success |-> FALSE, error_type |-> error_type, result |-> None]

-----------------------------------------------------------------------------
(***************************************************************************)
(* web3_wrapper.py: the exceptions _handle_exception tells apart.          *)
(* An exception is its class and the substrings str(e).lower() contains.   *)
(***************************************************************************)
ExceptionClasses ==
    {"ContractLogicError", "ContractCustomError", "ContractPanicError",
     "RequestTimedOut", "MethodUnavailable", "Web3RPCError",
     "BadFunctionCallOutput", "TransactionNotFound", "TooManyRequests",
     "ConnectionError", "ValueError"}

\* The direct base class of each exception class (web3.exceptions; the two
\* builtins derive from Exception).
BaseClass(cls) ==
    CASE cls = "ContractCustomError"   -> "ContractLogicError"
      [] cls = "ContractPanicError"    -> "ContractLogicError"
      [] cls = "ContractLogicError"    -> "Web3Exception"
      [] cls = "RequestTimedOut"       -> "Web3RPCError"
      [] cls = "MethodUnavailable"     -> "Web3RPCError"
      [] cls = "TooManyRequests"       -> "Web3RPCError"
      [] cls = "Web3RPCError"          -> "Web3Exception"
      [] cls = "BadFunctionCallOutput" -> "Web3Exception"
      [] cls = "TransactionNotFound"   -> "Web3Exception"
      [] OTHER                         -> "Exception"

RECURSIVE IsSubclass(_, _)
IsSubclass(cls, base) ==
    IF cls = base THEN TRUE
    ELSE IF cls = "Exception" THEN FALSE
    ELSE IsSubclass(BaseClass(cls), base)

\* isinstance(e, base)
isinstance(e, base) == IsSubclass(e.cls, base)

\* marker: which "function not found" wording the message has, if any
Markers == {"none", "function selector was not recognized", "function not found"}

Exceptions ==
    [cls      : ExceptionClasses,
     reverted : BOOLEAN,     \* "execution reverted" in str(e).lower()
     marker   : Markers,
     no_code  : BOOLEAN,     \* "no code at address" in str(e).lower()
     deployed : BOOLEAN,     \* "is contract deployed" in str(e).lower()
     network  : BOOLEAN]     \* "network" or "connection" in str(e).lower()

\* A mutation of _handle_exception: the selector marker is not looked at.
handle_exception_no_marker(e) ==
    IF isinstance(e, "ContractLogicError") THEN "execution_reverted"
    ELSE IF isinstance(e, "ContractCustomError") THEN "custom_error"
    ELSE IF isinstance(e, "ContractPanicError") THEN "panic_error"
    ELSE IF isinstance(e, "RequestTimedOut") THEN "timeout"
    ELSE IF isinstance(e, "MethodUnavailable") THEN "rpc_error"
    ELSE IF isinstance(e, "Web3RPCError") THEN
        IF e.no_code THEN "contract_not_found" ELSE "rpc_error"
    ELSE IF isinstance(e, "BadFunctionCallOutput") THEN
        IF e.deployed THEN "contract_not_found" ELSE "rpc_error"
    ELSE IF isinstance(e, "TransactionNotFound") THEN "rpc_error"
    ELSE IF isinstance(e, "TooManyRequests") THEN "rpc_error"
    ELSE IF e.network THEN "network_error" ELSE "unknown_error"

\* EnhancedWeb3._handle_exception: the isinstance chain, in the code's order.
handle_exception(e) ==
    IF isinstance(e, "ContractLogicError") THEN
        IF e.reverted THEN
            IF e.marker # "none" THEN "function_not_found"
            ELSE "execution_reverted"
        ELSE "execution_reverted"
    ELSE IF isinstance(e, "ContractCustomError") THEN "custom_error"
    ELSE IF isinstance(e, "ContractPanicError") THEN "panic_error"
    ELSE IF isinstance(e, "RequestTimedOut") THEN "timeout"
    ELSE IF isinstance(e, "MethodUnavailable") THEN "rpc_error"
    ELSE IF isinstance(e, "Web3RPCError") THEN
        IF e.no_code THEN "contract_not_found" ELSE "rpc_error"
    ELSE IF isinstance(e, "BadFunctionCallOutput") THEN
        IF e.deployed THEN "contract_not_found" ELSE "rpc_error"
    ELSE IF isinstance(e, "TransactionNotFound") THEN "rpc_error"
    ELSE IF isinstance(e, "TooManyRequests") THEN "rpc_error"
    ELSE IF e.network THEN "network_error" ELSE "unknown_error"

-----------------------------------------------------------------------------
(***************************************************************************)
(* Idle values: what a component's variables hold in a specification that  *)
(* does not run it.                                                        *)
(***************************************************************************)
ExcIdle == exc = None /\ handled = None

BatchIdle ==
    /\ batchPc = "idle"
    /\ contract_functions = <<>>
    /\ taskResult = <<>>
    /\ completed = <<>>
    /\ batchReturn = <<>>

NoUrl == 0

SelIdle ==
    /\ chains = <<>>
    /\ selPc = "idle"
    /\ selChain = 0
    /\ idx = 0
    /\ replies = <<>>
    /\ selResult = NoUrl

NoW3 == [from |-> "None", endpoint |-> NoUrl]

\* the locals of inspect_token before it assigns them
NoLocals ==
    [token_uri_result |-> None,
     token_uri |-> None, metadata |-> None, data_report |-> None,
     contract_uri |-> None, contract_metadata |-> None,
     contract_data_report |-> None, proxy_info |-> None,
     access_control_info |-> None, supported_interfaces |-> {},
     compliance_report |-> None, trust_analysis |-> None]

InspIdle ==
    /\ rpc_url = None
    /\ chain_id = 0
    /\ analyze_media = FALSE
    /\ analyze_trust = FALSE
    /\ w3 = NoW3
    /\ connection_initialized = FALSE
    /\ pc = "idle"
    /\ address_valid = FALSE
    /\ contract_call_issued = FALSE
    /\ locals = NoLocals
    /\ error = None
    /\ inspections = 0

\* Optional[ProxyInfo] None, Optional[EthereumAddress] None and
\* Optional[List[EthereumAddress]] None
NoProxyInfo == [none |-> TRUE]
NoAddress == <<>>
NoFacets == [none |-> TRUE]

\* a read that was not issued, a read that raised, a read that returned
NotIssued == [kind |-> "not_issued", value |-> <<>>]
Raises == [kind |-> "raises", value |-> <<>>]
Returns(v) == [kind |-> "returns", value |-> v]

\* a contract call that was not made
NotCalled == [success |-> FALSE, error_type |-> "not_called", result |-> None]

NoReads ==
    [code |-> NotIssued, storage_values |-> [i \in 1..4 |-> NotIssued],
     supports_loupe |-> NotCalled, facets_result |-> NotCalled,
     addresses_result |-> NotCalled, supports_cut |-> NotCalled,
     impl_result |-> NotCalled, admin_result |-> NotCalled,
     beacon_result |-> NotCalled, responds |-> {}]

ProxyIdle ==
    /\ detPc = "idle"
    /\ reads = NoReads
    /\ probes = <<>>
    /\ step_results = <<>>
    /\ proxy_info = NoProxyInfo

\* no call made yet
NoCall == [fn |-> "none"]

MaxCallers == 3
MaxCalls == 4
Callers == 1 .. MaxCallers

\* no coroutine: the lock as created (24), the thread of a loop at rest
Nobody == 0
\* _database_manager = None (25)
NoManager == 0

\* the class attributes of DatabaseSingleton, no get_manager call made
SingletonIdle ==
    /\ lock = Nobody
    /\ initialized = FALSE
    /\ database_manager = NoManager
    /\ callerPc = [c \in Callers |-> "idle"]
    /\ received = [c \in Callers |-> NoManager]
    /\ loop_thread = Nobody
    /\ initialize_runs = 0
    /\ failures = 0
    /\ get_manager_calls = 0

MaxStores == 2
MaxOutages == 1
\* entries[:10000] at blob.py:257, scaled down
LeaderboardCap == 1
Stores == 1 .. MaxStores

\* the statistics _ensure_global_stats writes in initialize() (446-452), also
\* taken for a blob that cannot be read (463-467)
DefaultStats == [total_analyses |-> 0, total_score |-> 0]

\* an initialized BlobManager on an empty store, no store_nft_analysis call
BlobIdle ==
    /\ nft_blobs = [path \in {1, 10} \X {"0xAb"} \X {1} |-> <<>>]
    /\ leaderboards = [path \in {<<"leaderboard/global", 0>>, <<"leaderboard/chain", 1>>, <<"leaderboard/chain", 10>>} |-> <<>>]
    /\ stats_blob = DefaultStats
    /\ storePc = [p \in Stores |-> "idle"]
    /\ storeLocal = [p \in Stores |-> <<>>]
    /\ overlapped = FALSE
    /\ service_up = TRUE
    /\ outages = 0

\* the components a specification does not run stay idle
Idle(running) ==
    /\ IF "exc" \in running THEN TRUE ELSE ExcIdle
    /\ IF "batch" \in running THEN TRUE ELSE BatchIdle
    /\ IF "sel" \in running THEN TRUE ELSE SelIdle
    /\ IF "insp" \in running THEN TRUE ELSE InspIdle
    /\ IF "proxy" \in running THEN TRUE ELSE ProxyIdle
    /\ IF "call" \in running THEN TRUE ELSE last_call = NoCall
    /\ IF "singleton" \in running THEN TRUE ELSE SingletonIdle
    /\ IF "blob" \in running THEN TRUE ELSE BlobIdle

\* an action of the components in `acting` leaves the other components alone
Frame(acting) ==
    /\ IF "exc" \in acting THEN TRUE ELSE UNCHANGED excVars
    /\ IF "batch" \in acting THEN TRUE ELSE UNCHANGED batchVars
    /\ IF "sel" \in acting THEN TRUE ELSE UNCHANGED selVars
    /\ IF "insp" \in acting THEN TRUE ELSE UNCHANGED inspVars
    /\ IF "proxy" \in acting THEN TRUE ELSE UNCHANGED proxyVars
    /\ IF "call" \in acting THEN TRUE ELSE UNCHANGED last_call
    /\ IF "singleton" \in acting THEN TRUE ELSE UNCHANGED singletonVars
    /\ IF "blob" \in acting THEN TRUE ELSE UNCHANGED blobVars
    /\ UNCHANGED chains

-----------------------------------------------------------------------------
(***************************************************************************)
(* Specification SpecRpcError: _handle_exception applied to every          *)
(* exception of Exceptions.                                                *)
(***************************************************************************)
InitRpcError ==
    /\ exc \in Exceptions
    /\ handled = None
    /\ Idle({"exc"})

\* a failed contract call: call_contract_function's except branch
HandleException ==
    /\ handled = None
    /\ handled' = handle_exception(exc)
    /\ UNCHANGED exc
    /\ Frame({"exc"})

NextRpcError == HandleException

SpecRpcError == InitRpcError /\ [][NextRpcError]_vars

\* C5: a revert (ContractLogicError) whose message has "execution reverted"
\* and a function-selector-not-recognized marker maps to function_not_found,
\* every other "execution reverted" revert maps to execution_reverted, and a
\* node error (Web3RPCError) saying "no code at address" maps to
\* contract_not_found; the kind is one of RpcErrorType other than success.
C5_ErrorKinds ==
    handled # None =>
        /\ handled \in RpcErrorType \ {"success"}
        /\ (isinstance(exc, "ContractLogicError") /\ exc.reverted
                /\ exc.marker # "none") => handled = "function_not_found"
        /\ (isinstance(exc, "ContractLogicError") /\ exc.reverted
                /\ exc.marker = "none") => handled = "execution_reverted"
        /\ (exc.cls = "Web3RPCError" /\ exc.no_code)
                => handled = "contract_not_found"

C5_Witness ==
    /\ handled = "function_not_found"
    /\ exc.cls = "ContractLogicError"
    /\ exc.reverted
    /\ exc.marker = "function selector was not recognized"

\* C6: a call failing with a custom-error selector (ContractCustomError)
\* yields custom_error, one failing with a panic selector (ContractPanicError)
\* yields panic_error.
C6_CustomAndPanicKinds ==
    handled # None =>
        /\ exc.cls = "ContractCustomError" => handled = "custom_error"
        /\ exc.cls = "ContractPanicError" => handled = "panic_error"

-----------------------------------------------------------------------------
(***************************************************************************)
(* web3_wrapper.py: async_call_contract_function and                       *)
(* async_batch_call_contract_functions.  A contract function is what it    *)
(* returns when it succeeds (ret) and the exception its call raises, if    *)
(* any (raises).  The executor may finish the calls in any order.          *)
(***************************************************************************)
MaxBatch == 3

ReturnValues == {"a", "b"}

RevertError ==
    [cls |-> "ContractLogicError", reverted |-> TRUE, marker |-> "none",
     no_code |-> FALSE, deployed |-> FALSE, network |-> FALSE]

ConnectionLost ==
    [cls |-> "ConnectionError", reverted |-> FALSE, marker |-> "none",
     no_code |-> FALSE, deployed |-> FALSE, network |-> TRUE]

\* raises of a call that raises nothing
NoException ==
    [cls |-> "None", reverted |-> FALSE, marker |-> "none",
     no_code |-> FALSE, deployed |-> FALSE, network |-> FALSE]

ContractFunctions ==
    [ret : ReturnValues, raises : {NoException, RevertError, ConnectionLost}]

\* a task that has not finished
Pending == [success |-> FALSE, error_type |-> "pending", result |-> None]

SeqsUpTo(S, n) == UNION {[1..k -> S] : k \in 0..n}

\* async_call_contract_function: the try/except around contract_function.call
async_call_contract_function(f) ==
    IF f.raises = NoException THEN success_result(f.ret)
    ELSE error_result(handle_exception(f.raises))

\* A mutation of gather: results in the order the tasks finished.
gather_as_completed(results, order) ==
    [k \in DOMAIN results |-> results[order[k]]]

\* asyncio.gather(*tasks): the results in the order of the awaitables given
gather(results, order) ==
    [k \in DOMAIN results |-> results[k]]

InitBatch ==
    /\ BatchIdle
    /\ Idle({"batch"})

\* async_batch_call_contract_functions is entered: one task per input
BatchCall ==
    /\ batchPc = "idle"
    /\ \E fs \in SeqsUpTo(ContractFunctions, MaxBatch) :
        /\ contract_functions' = fs
        /\ taskResult' = [i \in DOMAIN fs |-> Pending]
    /\ completed' = <<>>
    /\ batchReturn' = <<>>
    /\ batchPc' = "running"
    /\ Frame({"batch"})

\* one task finishes: any task still pending may be the next to finish
TaskFinishes ==
    /\ batchPc = "running"
    /\ \E i \in DOMAIN taskResult :
        /\ taskResult[i] = Pending
        /\ taskResult' = [taskResult EXCEPT
                            ![i] = async_call_contract_function(contract_functions[i])]
        /\ completed' = Append(completed, i)
    /\ UNCHANGED <<batchPc, contract_functions, batchReturn>>
    /\ Frame({"batch"})

\* every task has finished: gather hands back the list
GatherReturns ==
    /\ batchPc = "running"
    /\ \A i \in DOMAIN taskResult : taskResult[i] # Pending
    /\ batchReturn' = gather(taskResult, completed)
    /\ batchPc' = "returned"
    /\ UNCHANGED <<contract_functions, taskResult, completed>>
    /\ Frame({"batch"})

NextBatch == BatchCall \/ TaskFinishes \/ GatherReturns

SpecBatch == InitBatch /\ [][NextBatch]_vars

\* C4: the batch returns a list as long as its input in which result i is the
\* outcome of input call i, whatever order the calls finished in: a Success
\* carrying call i's value when call i succeeds, a Failure when it raises.
C4_BatchOrder ==
    batchPc = "returned" =>
        /\ Len(batchReturn) = Len(contract_functions)
        /\ \A i \in DOMAIN contract_functions :
            /\ batchReturn[i].success = (contract_functions[i].raises = NoException)
            /\ batchReturn[i].success =>
                    batchReturn[i].result = contract_functions[i].ret
            /\ ~batchReturn[i].success =>
                    batchReturn[i].error_type # "success"

\* batch([f1, f2, f3]) with f2 reverting, finished in the order f3, f2, f1
C4_Witness ==
    /\ batchPc = "returned"
    /\ Len(contract_functions) = 3
    /\ contract_functions[1] = [ret |-> "a", raises |-> NoException]
    /\ contract_functions[2].raises = RevertError
    /\ contract_functions[3] = [ret |-> "b", raises |-> NoException]
    /\ completed = <<3, 2, 1>>
    /\ batchReturn[1] = success_result("a")
    /\ batchReturn[2] = error_result("execution_reverted")
    /\ batchReturn[3] = success_result("b")

-----------------------------------------------------------------------------
(***************************************************************************)
(* chain_provider.py: ChainProvider.get_working_rpc_url and                *)
(* _test_rpc_endpoint.  The registry holds the listed chain; every other   *)
(* chain id is unknown to it.  An endpoint is the scheme of its URL, and   *)
(* its URL is its position in the chain's rpc list.                        *)
(***************************************************************************)
MaxEndpoints == 2

ListedChain == 1            \* a chain id the data files describe
ChainIds == {ListedChain, ListedChain + 1}   \* the second one is in no data file

Schemes == {"https", "ws", "wss"}

\* what the POST of a probe can come back with
Unprobed == [kind |-> "unprobed", status |-> 0,   body |-> "none"]
Raised   == [kind |-> "raised",   status |-> 0,   body |-> "none"]
Responses ==
    [kind : {"response"}, status : {200, 500},
     body : {"result", "null_result", "no_result"}]
ProbeReplies == Responses \cup {Raised}

\* ChainProvider.get_chain_info(cid).rpc, <<>> when there is no such chain
rpc(cid) == IF cid \in DOMAIN chains THEN chains[cid] ELSE <<>>

\* _test_rpc_endpoint skips WebSocket URLs
is_websocket(scheme) == scheme = "wss" \/ scheme = "ws"

\* A mutation of the reply test: any 200 response counts as working.
reply_works_any_200(reply) ==
    reply.kind = "response" /\ reply.status = 200

\* _test_rpc_endpoint, lines 56-61: status 200 and a non-null "result"
reply_works(reply) ==
    /\ reply.kind = "response"
    /\ reply.status = 200
    /\ reply.body = "result"

InitSelect ==
    /\ chains \in [{ListedChain} -> SeqsUpTo(Schemes, MaxEndpoints)]
    /\ selPc = "idle"
    /\ selChain = 0
    /\ idx = 0
    /\ replies = <<>>
    /\ selResult = NoUrl
    /\ Idle({"sel"})

\* get_working_rpc_url is entered (lines 76-78)
begin_get_working_rpc_url(cid) ==
    /\ selChain' = cid
    /\ replies' = [i \in DOMAIN rpc(cid) |-> Unprobed]
    /\ selResult' = NoUrl
    /\ IF rpc(cid) = <<>>
       THEN selPc' = "returned" /\ idx' = 0
       ELSE selPc' = "iterating" /\ idx' = 1

GetWorkingRpcUrl ==
    /\ selPc \in {"idle", "returned"}
    /\ \E cid \in ChainIds : begin_get_working_rpc_url(cid)
    /\ Frame({"sel"})

\* the loop takes the next entry: a WebSocket URL fails the test without a
\* request, any other URL is sent the eth_blockNumber probe
TestRpcEndpoint ==
    /\ selPc = "iterating"
    /\ idx <= Len(rpc(selChain))
    /\ IF is_websocket(rpc(selChain)[idx])
       THEN /\ idx' = idx + 1
            /\ selPc' = "iterating"
       ELSE /\ idx' = idx
            /\ selPc' = "probing"
    /\ UNCHANGED <<selChain, replies, selResult>>
    /\ Frame({"sel"})

\* the probe in flight ends: a response, or an exception (timeout included)
ProbeEnds ==
    /\ selPc = "probing"
    /\ \E reply \in ProbeReplies :
        /\ replies' = [replies EXCEPT ![idx] = reply]
        /\ IF reply_works(reply)
           THEN /\ selResult' = idx
                /\ selPc' = "returned"
                /\ idx' = idx
           ELSE /\ selResult' = selResult
                /\ selPc' = "iterating"
                /\ idx' = idx + 1
    /\ UNCHANGED selChain
    /\ Frame({"sel"})

\* the loop ran out of entries: return None (line 85)
ReturnNone ==
    /\ selPc = "iterating"
    /\ idx > Len(rpc(selChain))
    /\ selResult' = NoUrl
    /\ selPc' = "returned"
    /\ UNCHANGED <<selChain, idx, replies>>
    /\ Frame({"sel"})

NextSelect == GetWorkingRpcUrl \/ TestRpcEndpoint \/ ProbeEnds \/ ReturnNone

SpecSelect == InitSelect /\ [][NextSelect]_vars

\* endpoint j of the chain being selected for was sent a probe
Probed(j) == replies[j] # Unprobed

\* the reply carries a non-null result (whatever its HTTP status)
CarriesResult(reply) == reply.kind = "response" /\ reply.body = "result"

\* an HTTP 200 reply whose body carries a non-null result
Http200WithResult(reply) ==
    reply.kind = "response" /\ reply.status = 200 /\ reply.body = "result"

\* Probes go out one at a time in declared order, each only after every
\* earlier endpoint was skipped as a WebSocket URL or probed without
\* qualifying, and a WebSocket endpoint is never sent a probe.
SequentialProbing(Qualifies(_)) ==
    /\ \A j \in DOMAIN replies :
        /\ is_websocket(rpc(selChain)[j]) => ~Probed(j)
        /\ (Probed(j) \/ (selPc = "probing" /\ idx = j)) =>
              \A i \in 1..(j - 1) :
                  \/ is_websocket(rpc(selChain)[i])
                  \/ Probed(i) /\ ~Qualifies(replies[i])
    /\ selPc = "probing" => ~Probed(idx) /\ ~is_websocket(rpc(selChain)[idx])

\* the first endpoint in declared order that `Qualifies`, NoUrl when none does
FirstQualifying(Qualifies(_)) ==
    LET good == {j \in DOMAIN replies : Probed(j) /\ Qualifies(replies[j])}
    IN  IF good = {} THEN NoUrl
        ELSE CHOOSE j \in good : \A k \in good : j <= k

\* C3 as stated: sequential probing in declared order, ws/wss never probed,
\* and the URL returned is the first endpoint whose reply carries a non-null
\* result, None exactly when no endpoint's reply does.
C3_AsStated ==
    /\ SequentialProbing(CarriesResult)
    /\ selPc = "returned" => selResult = FirstQualifying(CarriesResult)

\* C3 as amended: the same, with "qualifies" meaning an HTTP 200 reply whose
\* body carries a non-null result.
C3_FirstWorkingEndpoint ==
    /\ SequentialProbing(Http200WithResult)
    /\ selPc = "returned" => selResult = FirstQualifying(Http200WithResult)

\* the first endpoint is a WebSocket URL, the second answers with a result
C3_Witness ==
    /\ selPc = "returned"
    /\ Len(rpc(selChain)) >= 2
    /\ rpc(selChain)[1] = "wss"
    /\ ~Probed(1)
    /\ selResult = 2
    /\ Http200WithResult(replies[2])

-----------------------------------------------------------------------------
(***************************************************************************)
(* client.py: NFTInspector._ensure_connection and inspect_token.  The      *)
(* leaves (contract calls, URI fetches, detectors) are taken by what they  *)
(* hand back to inspect_token; RPC selection runs as modelled above.       *)
(***************************************************************************)
MaxInspections == 2

\* what tokenURI/uri/contractURI come back with: a Failure, or a Success
\* whose string is empty, a URL of a scheme TokenURI allows, or other text
UriResults == {"failure", "empty", "url", "text"}

InterfacesChecked == {"ERC721", "ERC2981", "ERC4907"}

\* result.result if result.success else None
result_or_none(r) == IF r = "failure" THEN None ELSE r

\* Python truth of an Optional[str]
truthy(u) == u # None /\ u # "empty"

\* models.py TokenInfo: token_uri and contract_uri are Optional[TokenURI]
token_uri_validates(u) == u = None \/ u = "url"

\* NFTComplianceChecker._check_erc4907_compliance: get_block('latest') is
\* called, outside any try, when userOf gave a non-zero user and
\* userExpires succeeded
check_erc4907_compliance(user_of, user_expires, get_block) ==
    IF user_expires # "failure" /\ user_of = "address" /\ get_block = "raises"
    THEN "raises"
    ELSE "report"

\* NFTComplianceChecker.check_compliance
check_compliance(supported, user_of, user_expires, get_block) ==
    IF "ERC4907" \in supported
    THEN check_erc4907_compliance(user_of, user_expires, get_block)
    ELSE "report"

\* A mutation of _ensure_connection: a missing connection is not noticed.
no_working_rpc_unnoticed(selected) == FALSE

\* _ensure_connection, line 98: if not self.w3
no_working_rpc(selected) == selected = NoUrl

InitInspect ==
    /\ chains \in [{ListedChain} -> SeqsUpTo({"https", "ws"}, MaxEndpoints)]
    /\ selPc = "idle"
    /\ selChain = 0
    /\ idx = 0
    /\ replies = <<>>
    /\ selResult = NoUrl
    /\ rpc_url \in {None, "override"}
    /\ chain_id \in ChainIds
    /\ analyze_media \in BOOLEAN
    /\ analyze_trust \in BOOLEAN
    /\ w3 = NoW3
    /\ connection_initialized = FALSE
    /\ pc = "idle"
    /\ address_valid = FALSE
    /\ contract_call_issued = FALSE
    /\ locals = NoLocals
    /\ error = None
    /\ inspections = 0
    /\ Idle({"sel", "insp"})

\* inspect_token raises
Raise(e) ==
    /\ pc' = "raised"
    /\ error' = e

\* inspect_token(contract_address, token_id) is called
InspectToken ==
    /\ pc \in {"idle", "done", "raised"}
    /\ inspections < MaxInspections
    /\ inspections' = inspections + 1
    /\ address_valid' \in BOOLEAN
    /\ contract_call_issued' = FALSE
    /\ locals' = NoLocals
    /\ error' = None
    /\ pc' = "ensure"
    /\ UNCHANGED <<rpc_url, chain_id, analyze_media, analyze_trust, w3,
                   connection_initialized>>
    /\ Frame({"insp"})

\* _ensure_connection, lines 89-97
EnsureConnection ==
    /\ pc = "ensure"
    /\ IF connection_initialized
       THEN /\ pc' = "checksum"
            /\ UNCHANGED <<w3, connection_initialized, selVars>>
       ELSE IF rpc_url # None
       THEN /\ w3' = [from |-> "override", endpoint |-> NoUrl]
            /\ connection_initialized' = TRUE
            /\ pc' = "checksum"
            /\ UNCHANGED selVars
       ELSE /\ begin_get_working_rpc_url(chain_id)
            /\ pc' = "selecting"
            /\ UNCHANGED <<w3, connection_initialized>>
    /\ UNCHANGED <<rpc_url, chain_id, analyze_media, analyze_trust,
                   address_valid, contract_call_issued, locals, error,
                   inspections>>
    /\ Frame({"insp", "sel"})

\* get_enhanced_web3_connection came back: _ensure_connection, lines 97-102
ConnectionReturns ==
    /\ pc = "selecting"
    /\ selPc = "returned"
    /\ w3' = IF selResult = NoUrl THEN NoW3
             ELSE [from |-> "selected", endpoint |-> selResult]
    /\ IF no_working_rpc(selResult)
       THEN /\ Raise("NoWorkingRpc")
            /\ UNCHANGED connection_initialized
       ELSE /\ connection_initialized' = TRUE
            /\ pc' = "checksum"
            /\ UNCHANGED error
    /\ selPc' = "idle"
    /\ idx' = 0
    /\ replies' = <<>>
    /\ UNCHANGED <<selChain, selResult>>
    /\ UNCHANGED <<rpc_url, chain_id, analyze_media, analyze_trust,
                   address_valid, contract_call_issued, locals, inspections>>
    /\ Frame({"insp", "sel"})

\* fetch_token_and_contract_uri, line 130: to_checksum_address
ToChecksumAddress ==
    /\ pc = "checksum"
    /\ IF address_valid
       THEN pc' = "standard" /\ UNCHANGED error
       ELSE Raise("InvalidAddress")
    /\ UNCHANGED <<rpc_url, chain_id, analyze_media, analyze_trust, w3,
                   connection_initialized, address_valid,
                   contract_call_issued, locals, inspections>>
    /\ Frame({"insp"})

\* fetch_token_and_contract_uri, line 132: detect_nft_standard issues the
\* first contract calls (supportsInterface); the standard it finds only
\* picks uri(id) or tokenURI(id) for the batch that follows
DetectNftStandard ==
    /\ pc = "standard"
    /\ contract_call_issued' = TRUE
    /\ pc' = "batch"
    /\ UNCHANGED <<rpc_url, chain_id, analyze_media, analyze_trust, w3,
                   connection_initialized, address_valid, locals, error,
                   inspections>>
    /\ Frame({"insp"})

\* fetch_token_and_contract_uri, lines 134-146, and inspect_token, lines
\* 159-166 and 174: the batch of tokenURI/uri and contractURI
FetchTokenAndContractUri ==
    /\ pc = "batch"
    /\ \E t \in UriResults, c \in UriResults :
        locals' = [locals EXCEPT
                    !.token_uri_result = t,
                    !.token_uri = result_or_none(t),
                    !.contract_uri = result_or_none(c)]
    /\ pc' = "token_metadata"
    /\ UNCHANGED <<rpc_url, chain_id, analyze_media, analyze_trust, w3,
                   connection_initialized, address_valid,
                   contract_call_issued, error, inspections>>
    /\ Frame({"insp"})

\* what URIResolver.resolve_json followed by model_validate gives
\* fetch_metadata: nothing (any exception is swallowed), metadata whose URL
\* fields urlparse accepts, or metadata with a field urlparse rejects
\* (an unbalanced '[' in the host: ValueError "Invalid IPv6 URL")
MetadataResults == {None, "metadata", "metadata_bad_url"}

\* UrlAnalyzer.analyze / analyze_contract: analyze_media on every URL field;
\* _extract_protocol calls urlparse outside any try
analyze(metadata) == IF metadata = "metadata_bad_url" THEN "raises" ELSE "report"

\* inspect_token, lines 166-171 (uri = token_uri) and 174-179
\* (uri = contract_uri): the metadata and the data report of one URI, or a
\* data report of "raises" when analyze lets the ValueError through
handle_uri(uri, fetched) ==
    LET metadata == IF truthy(uri) THEN fetched ELSE None
    IN  [metadata |-> metadata,
         data_report |-> IF metadata # None /\ analyze_media
                         THEN analyze(metadata) ELSE None]

\* inspect_token, lines 166-171
HandleTokenUri ==
    /\ pc = "token_metadata"
    /\ \E fetched \in MetadataResults :
        LET h == handle_uri(locals.token_uri, fetched)
        IN  IF h.data_report = "raises"
            THEN /\ Raise("ValueError")
                 /\ locals' = [locals EXCEPT !.metadata = h.metadata]
            ELSE /\ pc' = "contract_metadata"
                 /\ locals' = [locals EXCEPT !.metadata = h.metadata,
                                             !.data_report = h.data_report]
                 /\ UNCHANGED error
    /\ UNCHANGED <<rpc_url, chain_id, analyze_media, analyze_trust, w3,
                   connection_initialized, address_valid,
                   contract_call_issued, inspections>>
    /\ Frame({"insp"})

\* inspect_token, lines 174-179
HandleContractUri ==
    /\ pc = "contract_metadata"
    /\ \E fetched \in MetadataResults :
        LET h == handle_uri(locals.contract_uri, fetched)
        IN  IF h.data_report = "raises"
            THEN /\ Raise("ValueError")
                 /\ locals' = [locals EXCEPT !.contract_metadata = h.metadata]
            ELSE /\ pc' = "detectors"
                 /\ locals' = [locals EXCEPT
                                !.contract_metadata = h.metadata,
                                !.contract_data_report = h.data_report]
                 /\ UNCHANGED error
    /\ UNCHANGED <<rpc_url, chain_id, analyze_media, analyze_trust, w3,
                   connection_initialized, address_valid,
                   contract_call_issued, inspections>>
    /\ Frame({"insp"})

\* inspect_token, lines 182-190: detect_proxy_standard and
\* analyze_access_control always hand back a record (their own failures end
\* in not_proxy and in the NONE/UNKNOWN default); get_supported_interfaces
\* lists the interfaces whose supportsInterface call returned true
RunDetectors ==
    /\ pc = "detectors"
    /\ \E supported \in SUBSET InterfacesChecked :
        locals' = [locals EXCEPT
                    !.proxy_info = "ProxyInfo",
                    !.access_control_info = "AccessControlInfo",
                    !.supported_interfaces = supported]
    /\ pc' = "compliance"
    /\ UNCHANGED <<rpc_url, chain_id, analyze_media, analyze_trust, w3,
                   connection_initialized, address_valid,
                   contract_call_issued, error, inspections>>
    /\ Frame({"insp"})

\* inspect_token, lines 193-194
CheckCompliance ==
    /\ pc = "compliance"
    /\ \E user_of \in {"failure", "zero", "address"},
          user_expires \in {"failure", "value"},
          get_block \in {"block", "raises"} :
        LET r == check_compliance(locals.supported_interfaces, user_of,
                                  user_expires, get_block)
        IN  IF r = "raises"
            THEN Raise("GetBlockError") /\ UNCHANGED locals
            ELSE /\ locals' = [locals EXCEPT !.compliance_report = r]
                 /\ pc' = "assemble"
                 /\ UNCHANGED error
    /\ UNCHANGED <<rpc_url, chain_id, analyze_media, analyze_trust, w3,
                   connection_initialized, address_valid,
                   contract_call_issued, inspections>>
    /\ Frame({"insp"})

\* inspect_token, lines 197-210: TokenInfo(...) validates its fields
CreateTokenInfo ==
    /\ pc = "assemble"
    /\ IF token_uri_validates(locals.token_uri)
          /\ token_uri_validates(locals.contract_uri)
       THEN pc' = "trust" /\ UNCHANGED error
       ELSE Raise("ValidationError")
    /\ UNCHANGED <<rpc_url, chain_id, analyze_media, analyze_trust, w3,
                   connection_initialized, address_valid,
                   contract_call_issued, locals, inspections>>
    /\ Frame({"insp"})

\* inspect_token, lines 213-222: a failing trust analysis is swallowed
TrustAnalysis ==
    /\ pc = "trust"
    /\ \E outcome \in {"TrustAnalysisResult", "raises"} :
        locals' = [locals EXCEPT !.trust_analysis =
                     IF analyze_trust /\ outcome # "raises"
                     THEN outcome ELSE None]
    /\ pc' = "done"
    /\ UNCHANGED <<rpc_url, chain_id, analyze_media, analyze_trust, w3,
                   connection_initialized, address_valid,
                   contract_call_issued, error, inspections>>
    /\ Frame({"insp"})

NextInspect ==
    \/ InspectToken
    \/ EnsureConnection
    \/ TestRpcEndpoint
    \/ ProbeEnds
    \/ ReturnNone
    \/ ConnectionReturns
    \/ ToChecksumAddress
    \/ DetectNftStandard
    \/ FetchTokenAndContractUri
    \/ HandleTokenUri
    \/ HandleContractUri
    \/ RunDetectors
    \/ CheckCompliance
    \/ CreateTokenInfo
    \/ TrustAnalysis

SpecInspect == InitInspect /\ [][NextInspect]_vars

\* C1: with a connection made and the address valid, inspect_token never
\* raises: the only errors that leave it are the missing RPC and the invalid
\* address; and a returned TokenInfo whose tokenURI call failed has token_uri,
\* metadata and data_report unset and proxy_info and access_control_info set.
C1_NeverRaises ==
    /\ pc = "raised" => error \in {"NoWorkingRpc", "InvalidAddress"}
    /\ (pc = "done" /\ locals.token_uri_result = "failure") =>
          /\ locals.token_uri = None
          /\ locals.metadata = None
          /\ locals.data_report = None
          /\ locals.proxy_info # None
          /\ locals.access_control_info # None

\* C2: without an override URL, when RPC selection for the inspector's chain
\* returns None, inspect_token raises the no-working-RPC error at once, with
\* no contract call issued; a contract call is only ever issued over a
\* connection that was made.
C2_NoWorkingRpcIsFatal ==
    /\ [][(rpc_url = None /\ pc = "selecting" /\ selPc = "returned"
              /\ selResult = NoUrl)
            => (pc' = "raised" /\ error' = "NoWorkingRpc"
                  /\ ~contract_call_issued')]_vars
    /\ [](contract_call_issued => w3 # NoW3)

\* every endpoint of a listed chain failed its probe and inspect_token raised
C2_Witness ==
    /\ rpc_url = None
    /\ chain_id = ListedChain
    /\ Len(chains[ListedChain]) = MaxEndpoints
    /\ pc = "raised"
    /\ error = "NoWorkingRpc"
    /\ ~contract_call_issued

\* where inspect_token stands once the awaits of lines 167-190 are through
AfterDetectors == {"compliance", "assemble", "trust", "done"}

\* token-metadata resolution (fetch_metadata) was issued and has completed
TokenMetadataResolved ==
    /\ truthy(locals.token_uri)
    /\ pc \in {"contract_metadata", "detectors"} \cup AfterDetectors

\* the proxy detector, the access-control detector and the interface
\* enumeration were issued
DetectorsIssued == pc \in AfterDetectors

\* a media-URI analysis (url_analyzer.analyze or analyze_contract) has begun
MediaAnalysisBegun ==
    locals.data_report # None \/ locals.contract_data_report # None

\* C24: within one inspect_token call, token-metadata resolution,
\* contract-metadata resolution, the proxy detector, the access-control
\* detector and interface enumeration are all issued before any one of them
\* is waited on to completion, and all five have completed before the first
\* media-URI analysis begins.
C24_ConcurrentThenJoined ==
    /\ TokenMetadataResolved => DetectorsIssued
    /\ MediaAnalysisBegun =>
          /\ pc \in AfterDetectors \cup {"raised"}
          /\ locals.proxy_info # None
          /\ locals.access_control_info # None

\* C25: no endpoint health is cached across inspections: every
\* inspect_token call made without an override URL runs RPC selection
\* again, with fresh probes, before it uses an endpoint.
C25_ReprobesEachInspection ==
    [][(pc = "ensure" /\ rpc_url = None) => pc' = "selecting"]_vars

-----------------------------------------------------------------------------
(***************************************************************************)
(* proxy_detector.py: ProxyDetector.  Bytes are numbers 0..255, bytecode   *)
(* and storage words are sequences of bytes, a hex string is the sequence  *)
(* of its digits 0..15, and an address is its 40 hex digits (the casing    *)
(* to_checksum_address gives them is not part of the value).               *)
(***************************************************************************)
MaxExtra == 1       \* bytes inserted into, or cut from, a clone's bytecode
MaxFacets == 2      \* facets a diamond lists

\* bytes.hex()
RECURSIVE hex(_)
hex(bytes) ==
    IF bytes = <<>> THEN <<>>
    ELSE <<Head(bytes) \div 16, Head(bytes) % 16>> \o hex(Tail(bytes))

\* bytes.fromhex(): the bytecode a hex string stands for
RECURSIVE fromhex(_)
fromhex(h) ==
    IF Len(h) < 2 THEN <<>>
    ELSE <<16 * h[1] + h[2]>> \o fromhex(SubSeq(h, 3, Len(h)))

\* str.startswith, str.endswith
startswith(str, prefix) ==
    Len(str) >= Len(prefix) /\ SubSeq(str, 1, Len(prefix)) = prefix
endswith(str, suffix) ==
    Len(str) >= Len(suffix)
        /\ SubSeq(str, Len(str) - Len(suffix) + 1, Len(str)) = suffix

\* "363d3d373d3d3d363d73" and "5af43d82803e903d91602b57fd5bf3"
EIP1167_BYTECODE_PREFIX ==
    <<3, 6, 3, 13, 3, 13, 3, 7, 3, 13, 3, 13, 3, 13, 3, 6, 3, 13, 7, 3>>
EIP1167_BYTECODE_SUFFIX ==
    <<5, 10, 15, 4, 3, 13, 8, 2, 8, 0, 3, 14, 9, 0, 3, 13, 9, 1, 6, 0, 2, 11, 5, 7, 15, 13, 5, 11, 15, 3>>

zeros(n) == [i \in 1..n |-> 0]

\* a 20-byte address by its first and last byte
AddressBytes(first, last) ==
    [i \in 1..20 |-> IF i = 1 THEN first ELSE IF i = 20 THEN last ELSE 0]

\* EthereumAddress.validate: Web3.is_address accepts 40 hex digits
is_address(value) == Len(value) = 40 /\ \A i \in 1..40 : value[i] \in 0..15

\* w3.to_checksum_address of 20 bytes
to_checksum_address(address_bytes) == hex(address_bytes)

\* ProxyInfo(is_proxy=..., proxy_standard=...) with the defaults of models.py
ProxyInfo(is_proxy, proxy_standard) ==
    [is_proxy |-> is_proxy, proxy_standard |-> proxy_standard,
     implementation_address |-> NoAddress, admin_address |-> NoAddress,
     beacon_address |-> NoAddress, facet_addresses |-> NoFacets,
     is_upgradeable |-> FALSE]

\* A mutation of the bytecode check: the length is not looked at.
is_runtime_length_any(bytecode_hex) == TRUE

\* _check_minimal_proxy_bytecode, line 134: 45 bytes runtime = 90 hex chars
is_runtime_length(bytecode_hex) == Len(bytecode_hex) = 90

\* _check_minimal_proxy_bytecode on what get_code gave
check_minimal_proxy_bytecode(code) ==
    IF code.kind = "raises" THEN NoProxyInfo
    ELSE LET bytecode_hex == hex(code.value)
             impl_hex == SubSeq(bytecode_hex, 21, 60)
         IN  IF is_runtime_length(bytecode_hex)
                /\ startswith(bytecode_hex, EIP1167_BYTECODE_PREFIX)
                /\ endswith(bytecode_hex, EIP1167_BYTECODE_SUFFIX)
                /\ is_address(impl_hex)
             THEN [ProxyInfo(TRUE, "EIP-1167-Minimal") EXCEPT
                     !.implementation_address = impl_hex,
                     !.is_upgradeable = FALSE]
             ELSE NoProxyInfo

\* A mutation of the slot decoding: the zero address counts as an address.
extract_address_keeping_zero(storage_bytes) ==
    IF Len(storage_bytes) # 32 THEN NoAddress
    ELSE to_checksum_address(SubSeq(storage_bytes, Len(storage_bytes) - 19,
                                    Len(storage_bytes)))

\* extract_address_from_storage, lines 172-182
extract_address_from_storage(storage_bytes) ==
    IF Len(storage_bytes) # 32 THEN NoAddress
    ELSE LET address_bytes == SubSeq(storage_bytes, Len(storage_bytes) - 19,
                                     Len(storage_bytes))
         IN  IF address_bytes = zeros(20) THEN NoAddress
             ELSE to_checksum_address(address_bytes)

\* _check_storage_based_proxies on what the four get_storage_at gave
check_storage_based_proxies(storage_values) ==
    IF \E i \in 1..4 : storage_values[i].kind # "returns" THEN NoProxyInfo
    ELSE LET impl_address ==
                 extract_address_from_storage(storage_values[1].value)
             admin_address ==
                 extract_address_from_storage(storage_values[2].value)
             beacon_address ==
                 extract_address_from_storage(storage_values[3].value)
             uups_impl_address ==
                 extract_address_from_storage(storage_values[4].value)
         IN  IF impl_address # NoAddress
             THEN IF beacon_address # NoAddress
                  THEN [ProxyInfo(TRUE, "Beacon") EXCEPT
                          !.implementation_address = impl_address,
                          !.beacon_address = beacon_address,
                          !.is_upgradeable = TRUE]
                  ELSE [ProxyInfo(TRUE, "EIP-1967-Transparent") EXCEPT
                          !.implementation_address = impl_address,
                          !.admin_address = admin_address,
                          !.is_upgradeable = TRUE]
             ELSE IF uups_impl_address # NoAddress
             THEN [ProxyInfo(TRUE, "EIP-1822-UUPS") EXCEPT
                     !.implementation_address = uups_impl_address,
                     !.is_upgradeable = TRUE]
             ELSE NoProxyInfo

\* rpc_result.success and rpc_result.result, for a bool result
success_and_result(rpc_result) ==
    IF rpc_result.success THEN rpc_result.result ELSE FALSE

\* A mutation of the diamond test: only the ERC-165 answer counts.
diamond_detected_by_loupe_only(supports_loupe, facets_result) ==
    success_and_result(supports_loupe)

\* _check_diamond_proxy, line 240
diamond_detected(supports_loupe, facets_result) ==
    success_and_result(supports_loupe) \/ facets_result.success

\* _check_diamond_proxy on the answers to its calls
check_diamond_proxy(supports_loupe, facets_result, addresses_result, supports_cut) ==
    IF diamond_detected(supports_loupe, facets_result)
    THEN LET facet_addresses ==
                 IF facets_result.success
                 THEN [i \in DOMAIN facets_result.result |->
                          facets_result.result[i][1]]
                 ELSE IF addresses_result.success
                 THEN addresses_result.result
                 ELSE <<>>
         IN  IF \A i \in DOMAIN facet_addresses :
                    is_address(facet_addresses[i])
             THEN [ProxyInfo(TRUE, "EIP-2535-Diamond") EXCEPT
                     !.facet_addresses = [list |-> facet_addresses],
                     !.is_upgradeable = success_and_result(supports_cut)]
             ELSE NoProxyInfo
    ELSE NoProxyInfo

\* _check_function_based_proxies on the answers to its calls
check_function_based_proxies(impl_result, admin_result, beacon_result) ==
    IF impl_result.success /\ impl_result.result # <<>>
    THEN [ProxyInfo(TRUE, "Custom") EXCEPT
            !.implementation_address = impl_result.result,
            !.is_upgradeable = TRUE]
    ELSE IF beacon_result.success
    THEN [ProxyInfo(TRUE, "Beacon") EXCEPT
            !.beacon_address = beacon_result.result,
            !.is_upgradeable = TRUE]
    ELSE IF admin_result.success
    THEN [ProxyInfo(TRUE, "Custom") EXCEPT !.is_upgradeable = TRUE]
    ELSE NoProxyInfo

\* ---- what the node can answer ----

\* a clone's runtime bytecode around the bytes `middle`
Clone(middle) ==
    fromhex(EIP1167_BYTECODE_PREFIX) \o middle
        \o fromhex(EIP1167_BYTECODE_SUFFIX)

Implementations == {AddressBytes(0, 0), AddressBytes(190, 239)}

\* bytecode get_code can return: clones, clones with up to MaxExtra bytes
\* more or fewer between prefix and suffix, 45 bytes with a wrong first or
\* last byte, and no code at all
Bytecodes ==
    {Clone(a \o zeros(n)) : a \in Implementations, n \in 0..MaxExtra}
        \cup {Clone(SubSeq(a, 1, 20 - n)) :
                a \in Implementations, n \in 1..MaxExtra}
        \cup {<<0>> \o Tail(Clone(AddressBytes(190, 239))),
              SubSeq(Clone(AddressBytes(190, 239)), 1, 44) \o <<0>>,
              <<>>}

\* 32-byte words get_storage_at can return for slot number s: zero, a word
\* with only high bytes set, and a word holding an address of its own
StorageWords(s) ==
    {zeros(32),
     zeros(11) \o <<1>> \o zeros(20),
     zeros(12) \o AddressBytes(160 + s, s)}

StorageReads(s) == {Raises} \cup {Returns(w) : w \in StorageWords(s)}

FacetAddresses == {hex(AddressBytes(0, 1)), hex(AddressBytes(0, 2))}

\* how a contract call can end, when it is made and when it is not
Outcomes(called) ==
    IF called THEN {"failure", "success"} ELSE {"not_called"}

\* the values to choose among for an outcome: `values` for a Success
ValuesOf(outcome, values) ==
    IF outcome = "success" THEN values ELSE {CHOOSE v \in values : TRUE}

\* the RpcResult async_call_contract_function hands back
rpc_result(outcome, value) ==
    CASE outcome = "success" -> success_result(value)
      [] outcome = "failure" -> error_result("execution_reverted")
      [] outcome = "not_called" -> NotCalled

\* what facets() returns: (facetAddress, functionSelectors) pairs
Facets == {[i \in DOMAIN addrs |-> <<addrs[i], <<>>>>] :
             addrs \in SeqsUpTo(FacetAddresses, MaxFacets)}

\* ---- detect_proxy_standard ----

Steps == <<"bytecode", "storage", "diamond", "function">>

Probe(step, call) == [step |-> step, call |-> call]

\* A mutation of detect_proxy_standard: a step's match is not acted on.
step_matched_ignored(result) == FALSE

\* detect_proxy_standard: if bytecode_result / storage_result / ...
step_matched(result) == result # NoProxyInfo

\* detect_proxy_standard after step k handed back `result`: return it, go on
\* to the next step, or return not_proxy after the last one
StepReturns(k, result) ==
    /\ step_results' = Append(step_results, result)
    /\ IF step_matched(result)
       THEN detPc' = "done" /\ proxy_info' = result
       ELSE IF k < Len(Steps)
       THEN detPc' = Steps[k + 1] /\ UNCHANGED proxy_info
       ELSE detPc' = "done" /\ proxy_info' = ProxyInfo(FALSE, "not_proxy")

InitProxy ==
    /\ detPc = "idle"
    /\ reads = NoReads
    /\ probes = <<>>
    /\ step_results = <<>>
    /\ proxy_info = NoProxyInfo
    /\ Idle({"proxy"})

\* detect_proxy_standard() is called
DetectProxyStandard ==
    /\ detPc = "idle"
    /\ detPc' = Steps[1]
    /\ UNCHANGED <<reads, probes, step_results, proxy_info>>
    /\ Frame({"proxy"})

\* Step 1: _check_minimal_proxy_bytecode
CheckMinimalProxyBytecode ==
    /\ detPc = "bytecode"
    /\ \E raises \in BOOLEAN, bytecode \in Bytecodes :
        LET code == IF raises THEN Raises ELSE Returns(bytecode)
        IN  /\ reads' = [reads EXCEPT !.code = code]
            /\ StepReturns(1, check_minimal_proxy_bytecode(code))
    /\ probes' = Append(probes, Probe(1, "get_code"))
    /\ Frame({"proxy"})

\* the reads left to issue after `storage_values`: none once one raised
NextStorageReads(storage_values, s) ==
    IF \E j \in DOMAIN storage_values : storage_values[j] = Raises
    THEN {NotIssued} ELSE StorageReads(s)

\* Step 2: _check_storage_based_proxies
CheckStorageBasedProxies ==
    /\ detPc = "storage"
    /\ \E r1 \in StorageReads(1) :
       \E r2 \in NextStorageReads(<<r1>>, 2) :
       \E r3 \in NextStorageReads(<<r1, r2>>, 3) :
       \E r4 \in NextStorageReads(<<r1, r2, r3>>, 4) :
        LET storage_values == <<r1, r2, r3, r4>>
        IN  /\ reads' = [reads EXCEPT !.storage_values = storage_values]
            /\ probes' = probes \o
                 [i \in 1..Cardinality({j \in 1..4 :
                                          storage_values[j] # NotIssued})
                    |-> Probe(2, "get_storage_at")]
            /\ StepReturns(2, check_storage_based_proxies(storage_values))
    /\ Frame({"proxy"})

\* Step 3: _check_diamond_proxy
CheckDiamondProxy ==
    /\ detPc = "diamond"
    /\ \E loupe_outcome \in Outcomes(TRUE), facets_outcome \in Outcomes(TRUE) :
       \E loupe \in ValuesOf(loupe_outcome, BOOLEAN),
          facets \in ValuesOf(facets_outcome, Facets) :
        LET supports_loupe == rpc_result(loupe_outcome, loupe)
            facets_result == rpc_result(facets_outcome, facets)
            detected == diamond_detected(supports_loupe, facets_result)
        IN  \E addresses_outcome \in
                  Outcomes(detected /\ ~facets_result.success),
               cut_outcome \in Outcomes(detected) :
            \E addresses \in ValuesOf(addresses_outcome,
                                SeqsUpTo(FacetAddresses, MaxFacets)),
               cut \in ValuesOf(cut_outcome, BOOLEAN) :
            LET addresses_result == rpc_result(addresses_outcome, addresses)
                supports_cut == rpc_result(cut_outcome, cut)
            IN  /\ reads' = [reads EXCEPT
                               !.supports_loupe = supports_loupe,
                               !.facets_result = facets_result,
                               !.addresses_result = addresses_result,
                               !.supports_cut = supports_cut]
                /\ probes' = probes
                     \o <<Probe(3, "supportsInterface"), Probe(3, "facets")>>
                     \o (IF addresses_outcome # "not_called"
                         THEN <<Probe(3, "facetAddresses")>> ELSE <<>>)
                     \o (IF cut_outcome # "not_called"
                         THEN <<Probe(3, "supportsInterface")>> ELSE <<>>)
                /\ StepReturns(3, check_diamond_proxy(supports_loupe,
                                     facets_result, addresses_result,
                                     supports_cut))
    /\ Frame({"proxy"})

\* how a call of function f ends on a contract on which the calls of the
\* functions in `responds` succeed
outcome_on(responds, f, called) ==
    IF ~called THEN "not_called"
    ELSE IF f \in responds THEN "success" ELSE "failure"

\* Step 4: _check_function_based_proxies, on a contract that answers the
\* functions in `responds` (kept in reads.responds) and fails the others
CheckFunctionBasedProxies ==
    /\ detPc = "function"
    /\ \E responds \in SUBSET {"implementation", "admin", "beacon"} :
        LET impl_result ==
                rpc_result(outcome_on(responds, "implementation", TRUE),
                           hex(AddressBytes(190, 239)))
            returned == impl_result.success /\ impl_result.result # <<>>
            admin_result ==
                rpc_result(outcome_on(responds, "admin", ~returned),
                           hex(AddressBytes(162, 2)))
            beacon_result ==
                rpc_result(outcome_on(responds, "beacon", ~returned),
                           hex(AddressBytes(163, 3)))
        IN  /\ reads' = [reads EXCEPT !.impl_result = impl_result,
                                      !.admin_result = admin_result,
                                      !.beacon_result = beacon_result,
                                      !.responds = responds]
            /\ probes' = probes \o <<Probe(4, "implementation")>>
                 \o (IF returned THEN <<>>
                     ELSE <<Probe(4, "admin"), Probe(4, "beacon")>>)
            /\ StepReturns(4, check_function_based_proxies(impl_result,
                                 admin_result, beacon_result))
    /\ Frame({"proxy"})

NextProxy ==
    \/ DetectProxyStandard
    \/ CheckMinimalProxyBytecode
    \/ CheckStorageBasedProxies
    \/ CheckDiamondProxy
    \/ CheckFunctionBasedProxies

SpecProxy == InitProxy /\ [][NextProxy]_vars

\* the step a read or call belongs to, by its name
StepOfCall(call) ==
    CASE call = "get_code" -> 1
      [] call = "get_storage_at" -> 2
      [] call \in {"supportsInterface", "facets", "facetAddresses"} -> 3
      [] call \in {"implementation", "admin", "beacon"} -> 4

StepsProbed == {StepOfCall(probes[i].call) : i \in DOMAIN probes}

\* C7: the steps run in the order bytecode, storage slots, diamond, function
\* signatures; a step runs only after every earlier step returned no match;
\* the first match is what detect_proxy_standard returns and nothing of a
\* later step is issued after it; with no match in any step (failed reads
\* included) the result is not_proxy with is_proxy false.
C7_DetectionOrder ==
    LET n == Len(step_results)
    IN  /\ \A i \in 1..(Len(probes) - 1) :
              StepOfCall(probes[i].call) <= StepOfCall(probes[i + 1].call)
        /\ StepsProbed = 1..n
        /\ \A k \in 1..(n - 1) : step_results[k] = NoProxyInfo
        /\ detPc \notin {"idle", "done"} =>
              /\ n < 4
              /\ detPc = Steps[n + 1]
              /\ \A k \in 1..n : step_results[k] = NoProxyInfo
        /\ detPc = "done" =>
              IF step_results[n] # NoProxyInfo
              THEN proxy_info = step_results[n] /\ proxy_info.is_proxy
              ELSE /\ n = 4
                   /\ proxy_info.proxy_standard = "not_proxy"
                   /\ ~proxy_info.is_proxy

\* a storage read raised, the diamond step matched, the function step never ran
C7_Witness ==
    /\ detPc = "done"
    /\ reads.storage_values[2] = Raises
    /\ proxy_info.proxy_standard = "EIP-2535-Diamond"
    /\ StepsProbed = {1, 2, 3}

\* the bytes of the EIP-1167 prefix and suffix
PrefixBytes == <<54, 61, 61, 55, 61, 61, 61, 54, 61, 115>>
SuffixBytes ==
    <<90, 244, 61, 130, 128, 62, 144, 61, 145, 96, 43, 87, 253, 91, 243>>

HasPrefixAndSuffix(bytecode) ==
    /\ Len(bytecode) >= 25
    /\ SubSeq(bytecode, 1, 10) = PrefixBytes
    /\ SubSeq(bytecode, Len(bytecode) - 14, Len(bytecode)) = SuffixBytes

\* C8: bytecode of exactly 45 bytes made of the prefix, 20 bytes and the
\* suffix is classified eip_1167_minimal, its implementation address being
\* bytes 10..29 and is_upgradeable false; bytecode with the same prefix and
\* suffix but another length is not, and the storage step runs next.
C8_MinimalProxy ==
    (Len(step_results) >= 1 /\ reads.code.kind = "returns"
        /\ HasPrefixAndSuffix(reads.code.value)) =>
      IF Len(reads.code.value) = 45
      THEN /\ detPc = "done"
           /\ proxy_info.is_proxy
           /\ proxy_info.proxy_standard = "EIP-1167-Minimal"
           /\ proxy_info.implementation_address
                 = hex(SubSeq(reads.code.value, 11, 30))
           /\ ~proxy_info.is_upgradeable
      ELSE /\ step_results[1] = NoProxyInfo
           /\ detPc = "done" => proxy_info.proxy_standard # "EIP-1167-Minimal"
           /\ detPc = "storage" \/ 2 \in StepsProbed

\* a clone of a non-zero implementation was classified
C8_Witness ==
    /\ detPc = "done"
    /\ reads.code = Returns(Clone(AddressBytes(190, 239)))
    /\ proxy_info.proxy_standard = "EIP-1167-Minimal"
    /\ proxy_info.implementation_address = hex(AddressBytes(190, 239))

\* the low 20 bytes of the word read from slot i (1 implementation, 2 admin,
\* 3 beacon, 4 UUPS), whether they are non-zero, and the address they spell
Low20(i) == SubSeq(reads.storage_values[i].value, 13, 32)
SlotSet(i) == \E j \in 1..20 : Low20(i)[j] # 0
SlotAddress(i) == hex(Low20(i))

\* C9: from the four slots as read: implementation and beacon set gives
\* beacon; implementation set and beacon unset gives eip_1967_transparent,
\* its admin_address the admin slot's address when non-zero, unset otherwise;
\* implementation unset and UUPS set gives eip_1822_uups; all three are
\* upgradeable; implementation and UUPS both unset is no match.
C9_StorageSlots ==
    (Len(step_results) >= 2
        /\ \A i \in 1..4 : reads.storage_values[i].kind = "returns") =>
      LET r == step_results[2]
      IN  /\ (SlotSet(1) /\ SlotSet(3)) =>
                /\ r # NoProxyInfo
                /\ r.proxy_standard = "Beacon"
                /\ r.is_upgradeable
          /\ (SlotSet(1) /\ ~SlotSet(3)) =>
                /\ r # NoProxyInfo
                /\ r.proxy_standard = "EIP-1967-Transparent"
                /\ r.admin_address =
                      IF SlotSet(2) THEN SlotAddress(2) ELSE NoAddress
                /\ r.is_upgradeable
          /\ (~SlotSet(1) /\ SlotSet(4)) =>
                /\ r # NoProxyInfo
                /\ r.proxy_standard = "EIP-1822-UUPS"
                /\ r.is_upgradeable
          /\ (~SlotSet(1) /\ ~SlotSet(4)) => r = NoProxyInfo

\* a transparent proxy with its admin slot set, next to a UUPS slot also set
C9_Witness ==
    /\ detPc = "done"
    /\ Len(step_results) = 2
    /\ \A i \in 1..4 : reads.storage_values[i].kind = "returns"
    /\ SlotSet(1) /\ SlotSet(2) /\ ~SlotSet(3) /\ SlotSet(4)
    /\ proxy_info.proxy_standard = "EIP-1967-Transparent"
    /\ proxy_info.admin_address = hex(AddressBytes(162, 2))

\* whether a call returning bool came back with true
ReturnedTrue(rpc_result_read) ==
    IF rpc_result_read.success THEN rpc_result_read.result ELSE FALSE

\* C10: the diamond step matches iff supportsInterface(0x48e2b093) returned
\* true or facets() succeeded; a match is eip_2535_diamond, its
\* facet_addresses those facets() returned, or those facetAddresses()
\* returned when facets() failed, and is_upgradeable iff
\* supportsInterface(0x1f931c1c) returned true.
C10_Diamond ==
    Len(step_results) >= 3 =>
      LET r == step_results[3]
          facets == reads.facets_result
      IN  /\ (r # NoProxyInfo) <=>
                (ReturnedTrue(reads.supports_loupe) \/ facets.success)
          /\ r # NoProxyInfo =>
                /\ r.is_proxy
                /\ r.proxy_standard = "EIP-2535-Diamond"
                /\ facets.success =>
                      r.facet_addresses =
                         [list |-> [i \in DOMAIN facets.result |->
                                      Head(facets.result[i])]]
                /\ (~facets.success /\ reads.addresses_result.success) =>
                      r.facet_addresses =
                         [list |-> reads.addresses_result.result]
                /\ r.is_upgradeable <=> ReturnedTrue(reads.supports_cut)

\* facets() failed on a contract declaring the loupe interface; its facets
\* came from facetAddresses() and it declares diamondCut
C10_Witness ==
    /\ detPc = "done"
    /\ Len(step_results) = 3
    /\ ReturnedTrue(reads.supports_loupe)
    /\ ~reads.facets_result.success
    /\ reads.addresses_result.success
    /\ Len(reads.addresses_result.result) = MaxFacets
    /\ proxy_info.proxy_standard = "EIP-2535-Diamond"
    /\ proxy_info.facet_addresses = [list |-> reads.addresses_result.result]
    /\ proxy_info.is_upgradeable

\* C11: in the function-signature step implementation(), admin() and
\* beacon() are probed in that order; a contract whose beacon() succeeds is
\* classified beacon, one whose implementation() succeeds custom, any other
\* non-empty set of successes custom with is_upgradeable, and no success is
\* no match.
C11_FunctionFallback ==
    Len(step_results) >= 4 =>
      LET r == step_results[4]
          calls == SelectSeq(probes, LAMBDA q : q.step = 4)
      IN  /\ \A i \in DOMAIN calls :
                calls[i].call = <<"implementation", "admin", "beacon">>[i]
          /\ "beacon" \in reads.responds =>
                r # NoProxyInfo /\ r.proxy_standard = "Beacon"
          /\ "implementation" \in reads.responds =>
                r # NoProxyInfo /\ r.proxy_standard = "Custom"
          /\ reads.responds = {"admin"} =>
                r # NoProxyInfo /\ r.proxy_standard = "Custom"
                   /\ r.is_upgradeable
          /\ reads.responds = {} => r = NoProxyInfo

-----------------------------------------------------------------------------
(***************************************************************************)
(* Specification SpecCalls: the functions whose result depends on their    *)
(* arguments only.  Each action is one call, on arguments drawn from a     *)
(* bounded set; `last_call` records the arguments and what it gave.  The   *)
(* calls do not affect one another, so a behaviour makes one.              *)
(* A string is the sequence of its characters.                             *)
(***************************************************************************)
MaxSegments == 3    \* pieces a token URI template is put together from

\* str.replace(old, new): leftmost occurrences, not overlapping
RECURSIVE replace(_, _, _)
replace(str, old, new) ==
    LET found == {i \in 1..(Len(str) - Len(old) + 1) :
                    SubSeq(str, i, i + Len(old) - 1) = old}
        first == CHOOSE i \in found : \A j \in found : i <= j
    IN  IF found = {} THEN str
        ELSE SubSeq(str, 1, first - 1) \o new
               \o replace(SubSeq(str, first + Len(old), Len(str)), old, new)

\* format(token_id, '064x')
RECURSIVE format_x(_)
format_x(n) ==
    LET digit == <<(<<"0", "1", "2", "3", "4", "5", "6", "7", "8", "9",
                      "a", "b", "c", "d", "e", "f">>)[(n % 16) + 1]>>
    IN  IF n < 16 THEN digit ELSE format_x(n \div 16) \o digit
format_064x(n) ==
    LET x == format_x(n)
    IN  [i \in 1..(IF Len(x) < 64 THEN 64 - Len(x) ELSE 0) |-> "0"] \o x

\* A mutation of substitute_erc1155_id: only the lower-case placeholder.
substitute_lower_case_only(uri, token_id) ==
    replace(uri, <<"{", "i", "d", "}">>, format_064x(token_id))

\* client.py: substitute_erc1155_id
substitute_erc1155_id(uri, token_id) ==
    IF replace(uri, <<"{", "i", "d", "}">>, <<>>) = uri
          /\ replace(uri, <<"{", "I", "D", "}">>, <<>>) = uri
    THEN uri
    ELSE replace(replace(uri, <<"{", "i", "d", "}">>, format_064x(token_id)),
                 <<"{", "I", "D", "}">>, format_064x(token_id))

\* the pieces of the URI templates tried, and the templates
RECURSIVE Concat(_)
Concat(pieces) ==
    IF pieces = <<>> THEN <<>> ELSE Head(pieces) \o Concat(Tail(pieces))
UriTemplates ==
    {Concat(pieces) : pieces \in SeqsUpTo(
        {<<"{", "i", "d", "}">>, <<"{", "I", "D", "}">>, <<"{", "i">>,
         <<"d", "}">>, <<"{">>, <<"I", "D", "}">>, <<"a", "/">>},
        MaxSegments)}

TokenIds == {0, 1, 255, 43981}

\* fetch_token_and_contract_uri, lines 134-146, followed by inspect_token,
\* lines 166-168: the URI call of the detected standard, the substitution,
\* and the URIs handed to fetch_metadata for resolution
FetchTokenUri ==
    /\ last_call = NoCall
    /\ \E nft_standard \in {"ERC-721", "ERC-1155"}, success \in BOOLEAN,
          uri \in UriTemplates, token_id \in TokenIds :
        LET result == IF nft_standard = "ERC-1155" /\ success /\ uri # <<>>
                      THEN substitute_erc1155_id(uri, token_id) ELSE uri
        IN  last_call' = [fn |-> "fetch_token_and_contract_uri",
                     nft_standard |-> nft_standard, success |-> success,
                     uri |-> uri, token_id |-> token_id,
                     resolved |-> IF success /\ result # <<>>
                                  THEN <<result>> ELSE <<>>]
    /\ Frame({"call"})

\* the URI an ERC-1155 template stands for: read left to right, each
\* placeholder gives way to the id as 64 hex digits, the rest is kept
RECURSIVE Expanded(_, _)
Expanded(uri, n) ==
    IF uri = <<>> THEN <<>>
    ELSE IF Len(uri) >= 4
            /\ SubSeq(uri, 1, 4) \in {<<"{", "i", "d", "}">>,
                                      <<"{", "I", "D", "}">>}
    THEN [i \in 1..64 |->
             IF i < 58 THEN "0"
             ELSE (<<"0", "1", "2", "3", "4", "5", "6", "7", "8", "9",
                     "a", "b", "c", "d", "e", "f">>)
                       [((n \div (16 ^ (64 - i))) % 16) + 1]]
         \o Expanded(SubSeq(uri, 5, Len(uri)), n)
    ELSE <<Head(uri)>> \o Expanded(Tail(uri), n)

\* C12: the token URI of an ERC-1155 token that reaches resolution is the
\* uri(n) template with every {id} and {ID} replaced by n as 64 lower-case
\* zero-padded hex digits, a template without placeholder unchanged; it is
\* the one URI resolved, and substituting again changes nothing.
C12_Erc1155Substitution ==
    (last_call.fn = "fetch_token_and_contract_uri"
        /\ last_call.nft_standard = "ERC-1155" /\ last_call.success
        /\ last_call.uri # <<>>) =>
      /\ last_call.resolved = <<Expanded(last_call.uri, last_call.token_id)>>
      /\ (Expanded(last_call.uri, last_call.token_id) = last_call.uri) =>
            last_call.resolved = <<last_call.uri>>
      /\ substitute_erc1155_id(last_call.resolved[1], last_call.token_id)
            = last_call.resolved[1]

\* a template with both spellings of the placeholder, for an id of four digits
C12_Witness ==
    /\ last_call.fn = "fetch_token_and_contract_uri"
    /\ last_call.nft_standard = "ERC-1155"
    /\ last_call.success
    /\ last_call.uri = <<"a", "/", "{", "i", "d", "}", "{", "I", "D", "}">>
    /\ last_call.token_id = 43981
    /\ SubSeq(last_call.resolved[1], 63, 70) = <<"a", "b", "c", "d", "0", "0", "0", "0">>

\* _classify_governance_from_address: unknown for no address and for the
\* zero address, else what the look at the address gives
classify_governance_from_address(address, found) ==
    IF address \in {None, "zero"} THEN "unknown" ELSE found

\* Python `a or b` on Optional[str]
or_else(a, b) == IF a # None THEN a ELSE b

\* A mutation of _classify_access_control: admin() is not looked at.
classify_without_admin(owner_address, admin_address, has_access_control, owner_function_exists, admin_function_exists, found) ==
    IF has_access_control
    THEN <<"role_based", classify_governance_from_address(
                            or_else(admin_address, owner_address), found)>>
    ELSE IF owner_function_exists
    THEN IF owner_address \notin {None, "zero"}
         THEN <<"ownable", classify_governance_from_address(owner_address, found)>>
         ELSE <<"ownable", "renounced">>
    ELSE <<"none", "unknown">>

\* access_control_detector.py: _classify_access_control; `found` is what
\* _classify_governance_from_address finds at a non-zero address
classify_access_control(owner_address, admin_address, has_access_control, owner_function_exists, admin_function_exists, found) ==
    IF has_access_control
    THEN <<"role_based", classify_governance_from_address(
                            or_else(admin_address, owner_address), found)>>
    ELSE IF owner_function_exists
    THEN IF owner_address \notin {None, "zero"}
         THEN <<"ownable", classify_governance_from_address(owner_address, found)>>
         ELSE <<"ownable", "renounced">>
    ELSE IF admin_function_exists
    THEN IF admin_address \notin {None, "zero"}
         THEN <<"simple_owner", classify_governance_from_address(admin_address, found)>>
         ELSE <<"simple_owner", "renounced">>
    ELSE <<"none", "unknown">>

\* _analyze_batch_results, lines 112-127, on the results of owner(), admin()
\* and supportsInterface(AccessControl): "failure", or the value returned
AnalyzeBatchResults ==
    /\ last_call = NoCall
    /\ \E owner_result \in {"failure", "zero", "address"},
          admin_result \in {"failure", "zero", "address"},
          access_control_result \in {"failure", "true", "false"},
          found \in {"eoa", "contract", "multisig", "timelock", "unknown"} :
        LET owner_address ==
                IF owner_result # "failure" THEN owner_result ELSE None
            admin_address ==
                IF admin_result # "failure" THEN admin_result ELSE None
            classified == classify_access_control(
                owner_address, admin_address, access_control_result = "true",
                owner_result # "failure", admin_result # "failure", found)
        IN  last_call' = [fn |-> "_analyze_batch_results",
                          owner_result |-> owner_result,
                          admin_result |-> admin_result,
                          access_control_result |-> access_control_result,
                          access_control_type |-> classified[1],
                          governance_type |-> classified[2]]
    /\ Frame({"call"})

\* C13 as stated: role_based when AccessControl is supported; else ownable
\* for a non-zero owner(); else ownable and renounced for a zero owner();
\* none in every other case.
C13_AsStated ==
    last_call.fn = "_analyze_batch_results" =>
      IF last_call.access_control_result = "true"
      THEN last_call.access_control_type = "role_based"
      ELSE IF last_call.owner_result = "address"
      THEN last_call.access_control_type = "ownable"
      ELSE IF last_call.owner_result = "zero"
      THEN /\ last_call.access_control_type = "ownable"
           /\ last_call.governance_type = "renounced"
      ELSE last_call.access_control_type = "none"

\* C13: as above, except that with AccessControl unsupported and owner()
\* failed, a succeeding admin() gives simple_owner (renounced when it
\* returns the zero address); none is left for owner() and admin() both
\* failed.
C13_AccessControlRules ==
    last_call.fn = "_analyze_batch_results" =>
      IF last_call.access_control_result = "true"
      THEN last_call.access_control_type = "role_based"
      ELSE IF last_call.owner_result = "address"
      THEN last_call.access_control_type = "ownable"
      ELSE IF last_call.owner_result = "zero"
      THEN /\ last_call.access_control_type = "ownable"
           /\ last_call.governance_type = "renounced"
      ELSE IF last_call.admin_result # "failure"
      THEN /\ last_call.access_control_type = "simple_owner"
           /\ last_call.admin_result = "zero" =>
                 last_call.governance_type = "renounced"
      ELSE last_call.access_control_type = "none"

\* AccessControl unsupported, owner() failed, admin() answered
C13_Witness ==
    /\ last_call.fn = "_analyze_batch_results"
    /\ last_call.access_control_result = "false"
    /\ last_call.owner_result = "failure"
    /\ last_call.admin_result = "address"
    /\ last_call.access_control_type = "simple_owner"

\* compliance_checker.py: the loop of _check_erc721_compliance over the
\* batch results; each argument is [success, result], total_supply is
\* NotCalled when Enumerable is not supported
check_erc721_compliance(name, symbol, owner_of, total_supply) ==
    LET strip(str) ==
            LET inked == {i \in DOMAIN str : str[i] # " "}
            IN  IF inked = {} THEN <<>>
                ELSE SubSeq(str, CHOOSE i \in inked : \A j \in inked : i <= j,
                            CHOOSE i \in inked : \A j \in inked : i >= j)
        string_status(res) ==
            IF res.success /\ res.result # <<>>
            THEN IF strip(res.result) # <<>> THEN "pass" ELSE "fail"
            ELSE "error"
    IN  [name_status |-> string_status(name),
         symbol_status |-> string_status(symbol),
         owner_of_status |->
            IF owner_of.success /\ owner_of.result # <<>>
            THEN IF owner_of.result # hex(zeros(20)) THEN "pass" ELSE "fail"
            ELSE "error",
         total_supply_status |->
            IF total_supply.error_type = "not_called" THEN None
            ELSE IF total_supply.success
            THEN IF total_supply.result > 0 THEN "pass" ELSE "fail"
            ELSE "error"]

\* _check_erc721_compliance on a contract: name() and symbol() fail or
\* return an empty, a blank or a proper string, ownerOf() fails or returns
\* the zero or another address, totalSupply() fails or returns 0 or more
CheckErc721Compliance ==
    /\ last_call = NoCall
    /\ \E name_outcome \in Outcomes(TRUE), symbol_outcome \in Outcomes(TRUE),
          owner_outcome \in Outcomes(TRUE), enumerable \in BOOLEAN :
       \E supply_outcome \in Outcomes(enumerable),
          name_value \in ValuesOf(name_outcome, {<<>>, <<" ">>, <<"N", " ">>}),
          symbol_value \in ValuesOf(symbol_outcome, {<<>>, <<" ">>, <<"S">>}),
          owner_value \in ValuesOf(owner_outcome,
                            {hex(zeros(20)), hex(AddressBytes(0, 1))}) :
       \E supply_value \in ValuesOf(supply_outcome, {0, 1}) :
        LET name == rpc_result(name_outcome, name_value)
            symbol == rpc_result(symbol_outcome, symbol_value)
            owner_of == rpc_result(owner_outcome, owner_value)
            total_supply == rpc_result(supply_outcome, supply_value)
        IN  last_call' = [fn |-> "_check_erc721_compliance",
                          name |-> name, symbol |-> symbol,
                          owner_of |-> owner_of,
                          total_supply |-> total_supply,
                          result |-> check_erc721_compliance(
                                       name, symbol, owner_of, total_supply)]
    /\ Frame({"call"})

\* the status C14 gives a field whose call ended as `res`, `valid` telling
\* whether the value returned is non-empty / non-zero
StatusAsStated(res, valid) ==
    IF ~res.success THEN "error" ELSE IF valid THEN "pass" ELSE "fail"

\* C14: name, symbol, ownerOf and (with Enumerable) totalSupply each have
\* status pass iff the call succeeded with a non-empty / non-zero value, fail
\* iff it succeeded with an empty or zero value, error iff it failed.
C14_Erc721FieldStatus ==
    last_call.fn = "_check_erc721_compliance" =>
      LET r == last_call.result
      IN  /\ r.name_status = StatusAsStated(last_call.name,
                last_call.name.success
                   /\ \E i \in DOMAIN last_call.name.result :
                         last_call.name.result[i] # " ")
          /\ r.symbol_status = StatusAsStated(last_call.symbol,
                last_call.symbol.success
                   /\ \E i \in DOMAIN last_call.symbol.result :
                         last_call.symbol.result[i] # " ")
          /\ r.owner_of_status = StatusAsStated(last_call.owner_of,
                last_call.owner_of.success
                   /\ \E i \in DOMAIN last_call.owner_of.result :
                         last_call.owner_of.result[i] # 0)
          /\ last_call.total_supply.error_type # "not_called" =>
                r.total_supply_status = StatusAsStated(last_call.total_supply,
                   last_call.total_supply.success
                      /\ last_call.total_supply.result > 0)

(***************************************************************************)
(* UrlAnalyzer._extract_protocol (analyzer.py).  A URL is a sequence of    *)
(* pieces: a scheme word, ":", "//", a host, a path.  urlparse takes as    *)
(* scheme what stands before the first ":" when it is made of scheme       *)
(* characters only, and the code lower-cases it.                           *)
(***************************************************************************)
MediaProtocol == {"data", "ar", "ipfs", "ipns", "https", "http", "none", "unknown"}

get_score(protocol) ==
    CASE protocol = "data" -> 10
      [] protocol = "ar" -> 8
      [] protocol = "ipfs" -> 6
      [] protocol = "ipns" -> 4
      [] protocol = "https" -> 2
      [] protocol = "http" -> 1
      [] protocol = "none" -> 0
      [] protocol = "unknown" -> 0

lower(piece) == IF piece = "HTTPS" THEN "https" ELSE IF piece = "0xAb" THEN "0xab" ELSE piece

scheme_chars(piece) == piece \notin {":", "//", "/ipfs/Qm", "/a.png"}

urlparse_scheme(url) ==
    LET colons == {i \in 1..Len(url) : url[i] = ":"}
        i == CHOOSE c \in colons : \A d \in colons : c <= d
    IN  IF colons # {} /\ i > 1 /\ \A j \in 1..(i - 1) : scheme_chars(url[j])
        THEN [j \in 1..(i - 1) |-> lower(url[j])]
        ELSE <<>>

extract_protocol(url) ==
    IF startswith(url, <<"data", ":">>) THEN "data"
    ELSE LET scheme == urlparse_scheme(url)
         IN  CASE scheme = <<>> -> "none"
               [] scheme = <<"http">> -> "http"
               [] scheme = <<"https">> -> "https"
               [] scheme = <<"ipfs">> -> "ipfs"
               [] scheme = <<"ipns">> -> "ipns"
               [] scheme = <<"ar">> -> "ar"
               [] OTHER -> "unknown"

SchemeWords == {"", "data", "https", "HTTPS", "http", "ipfs", "ipns", "ar", "ftp"}
Separators == {<<>>, <<":">>, <<":", "//">>}
Hosts == {"", "arweave.net", "example.com"}
Paths == {"", "/ipfs/Qm", "/a.png"}

Pieces(word) == IF word = "" THEN <<>> ELSE <<word>>

ExtractProtocol ==
    /\ last_call = NoCall
    /\ \E word \in SchemeWords, sep \in Separators, host \in Hosts, path \in Paths :
          LET url == Pieces(word) \o sep \o Pieces(host) \o Pieces(path)
              protocol == extract_protocol(url)
          IN  last_call' = [fn |-> "_extract_protocol", word |-> word, sep |-> sep,
                            host |-> host, path |-> path, url |-> url,
                            protocol |-> protocol, score |-> get_score(protocol)]
    /\ Frame({"call"})

\* What the protocol table gives for a URL put together from a scheme
\* word, a separator, a host and a path.
ProtocolAsStated(c) ==
    LET scheme == IF c.sep = <<>> THEN "" ELSE lower(c.word)
    IN  CASE c.word = "data" /\ c.sep # <<>> -> "data"
          [] scheme = "ar" \/ (scheme = "https" /\ c.host = "arweave.net") -> "ar"
          [] scheme = "ipfs" \/ (scheme = "https" /\ c.path = "/ipfs/Qm") -> "ipfs"
          [] scheme = "ipns" -> "ipns"
          [] scheme = "https" -> "https"
          [] scheme = "http" -> "http"
          [] scheme = "" -> "none"
          [] OTHER -> "unknown"

ScoreAsStated(protocol) == [data |-> 10, ar |-> 8, ipfs |-> 6, ipns |-> 4, https |-> 2, http |-> 1, none |-> 0, unknown |-> 0][protocol]

\* C15: the protocol recorded for a URI follows the table of scheme and URL
\* shape: data: gives data (10); ar:// or an HTTPS URL on an arweave host
\* gives arweave (8); ipfs:// or an HTTPS URL whose path contains /ipfs/
\* gives ipfs (6); ipns:// gives ipns (4); any other https:// gives https
\* (2); any other http:// gives http (1); an empty scheme gives none (0);
\* anything else gives unknown (0).
C15_ProtocolTable ==
    last_call.fn = "_extract_protocol" =>
        /\ last_call.protocol = ProtocolAsStated(last_call)
        /\ last_call.score = ScoreAsStated(last_call.protocol)

(***************************************************************************)
(* HtmlAnalyzer.analyze_html_content and _calculate_dependency_score       *)
(* (html_analyzer.py; svg_analyzer.py holds the same two functions for SVG *)
(* documents).  An external resource is held by the protocol of its        *)
(* url_info.                                                               *)
(***************************************************************************)
MaxResources == 3   \* external URLs a document refers to

DependencyReport(is_fully_onchain, min_protocol_score, min_protocol, external_resources) == [is_fully_onchain |-> is_fully_onchain, min_protocol_score |-> min_protocol_score, min_protocol |-> min_protocol, external_resources |-> external_resources, total_dependencies |-> Len(external_resources)]

\* A mutation of the comparison: only the first resource is ever taken.
is_weaker_first_only(external_resources, i, weakest) == weakest = 0

\* `score < min_score`, min_score being infinite as long as no resource was
\* taken (weakest = 0)
is_weaker(external_resources, i, weakest) == weakest = 0 \/ get_score(external_resources[i]) < get_score(external_resources[weakest])

\* the loop over external_resources: the index of the resource that gives
\* min_score and min_protocol
RECURSIVE weakest_link(_, _, _)
weakest_link(external_resources, i, weakest) ==
    IF i > Len(external_resources) THEN weakest
    ELSE weakest_link(external_resources, i + 1, IF is_weaker(external_resources, i, weakest) THEN i ELSE weakest)

calculate_dependency_score(external_resources) ==
    IF external_resources = <<>> THEN DependencyReport(TRUE, 10, None, <<>>)
    ELSE LET weakest == weakest_link(external_resources, 1, 0)
             min_score == IF weakest = 0 THEN 0 ELSE get_score(external_resources[weakest])
             min_protocol == IF weakest = 0 THEN "unknown" ELSE external_resources[weakest]
         IN  DependencyReport(min_score >= 10, min_score, min_protocol, external_resources)

\* what analyze_media gives for one URL: a url_info with its protocol, or an
\* exception
MediaOutcomes == MediaProtocol \cup {"raises"}

AnalyzeHtmlContent ==
    /\ last_call = NoCall
    /\ \E parsed \in BOOLEAN :
          \E urls \in (IF parsed THEN SeqsUpTo(MediaOutcomes, MaxResources) ELSE {<<>>}) :
             LET external_resources == [i \in 1..Len(urls) |-> IF urls[i] = "raises" THEN "unknown" ELSE urls[i]]
             IN  last_call' = [fn |-> "analyze_html_content", parsed |-> parsed, urls |-> urls,
                               result |-> IF parsed THEN calculate_dependency_score(external_resources)
                                          ELSE DependencyReport(FALSE, 0, "unknown", <<>>)]
    /\ Frame({"call"})

ResourceScores(report) == {ScoreAsStated(report.external_resources[i]) : i \in 1..Len(report.external_resources)}

\* min_protocol_score is the least score of the resources, or 10 without
\* resources; is_fully_onchain iff no resource scores less than 10
Minimal(report) ==
    /\ IF report.external_resources = <<>> THEN report.min_protocol_score = 10
       ELSE /\ report.min_protocol_score \in ResourceScores(report)
            /\ \A score \in ResourceScores(report) : report.min_protocol_score <= score
    /\ report.is_fully_onchain <=> \A score \in ResourceScores(report) : score = 10

\* C16 as stated: every DependencyReport has min_protocol_score equal to the
\* least protocol score of its external_resources, or 10 when there are
\* none, and is_fully_onchain iff there are none or all of them score 10.
C16_AsStated ==
    last_call.fn = "analyze_html_content" => Minimal(last_call.result)

\* C16: every DependencyReport of a document that was parsed lists one
\* resource per external URL and has the least score of them (10 when there
\* are none) and is_fully_onchain iff all score 10; the report of a document
\* that could not be parsed is not on-chain, scores 0 and lists nothing.
C16_DependencyReport ==
    last_call.fn = "analyze_html_content" =>
        IF last_call.parsed
        THEN /\ Len(last_call.result.external_resources) = Len(last_call.urls)
             /\ \A i \in 1..Len(last_call.urls) : last_call.result.external_resources[i] = (IF last_call.urls[i] = "raises" THEN "unknown" ELSE last_call.urls[i])
             /\ Minimal(last_call.result)
        ELSE /\ ~last_call.result.is_fully_onchain
             /\ last_call.result.min_protocol_score = 0
             /\ last_call.result.external_resources = <<>>

C16_Witness ==
    /\ last_call.fn = "analyze_html_content"
    /\ last_call.parsed
    /\ Len(last_call.urls) >= 2
    /\ last_call.result.min_protocol_score < ScoreAsStated(last_call.result.external_resources[1])
    /\ last_call.result.min_protocol_score > 0

(***************************************************************************)
(* TrustAnalyzer._analyze_permanence (trust_analyzer.py).  The floats of   *)
(* the code are multiples of 1/20 here (the mean of two scores has halves, *)
(* 0.9 of it twentieths), held as integers of twentieths and rounded as    *)
(* Python's round does, the tie going to the even integer; chain penalties *)
(* are held in tenths.                                                     *)
(***************************************************************************)
NoUrlInfo == [present |-> FALSE]
NoDependencies == [present |-> FALSE]
NoChainInfo == [present |-> FALSE]

min(a, b) == IF a <= b THEN a ELSE b
max(a, b) == IF a >= b THEN a ELSE b

\* round(n / d)
round(n, d) ==
    LET q == n \div d
        r == n % d
    IN  IF 2 * r < d THEN q
        ELSE IF 2 * r > d THEN q + 1
        ELSE IF q % 2 = 0 THEN q ELSE q + 1

get_url_protocol_score(url_info) ==
    IF ~url_info.present THEN 0
    ELSE LET base_score == get_score(url_info.protocol)
             deps == url_info.external_dependencies
         IN  IF deps.present /\ ~deps.is_fully_onchain
             THEN min(base_score, deps.min_protocol_score)
             ELSE base_score

get_url_protocol_name(url_info) == IF ~url_info.present THEN "none" ELSE url_info.protocol

\* A mutation of the gating: the score passes ungated.
gate_skipped(gating_score, score) == score

\* min(metadata_score, image_score) if image_score > 0 else 0
gate(gating_score, score) == IF score > 0 THEN min(gating_score, score) ELSE 0

\* CHAIN_PENALTIES.get(stage, 2.0), in tenths
CHAIN_PENALTIES(stage) ==
    CASE stage = "Stage 2" -> 5
      [] stage = "Stage 1" -> 10
      [] stage = "Stage 0" -> 15
      [] OTHER -> 20

calculate_chain_penalty(chain_info) ==
    IF ~chain_info.present \/ chain_info.isTestnet THEN 0
    ELSE IF chain_info.chainId = 1 THEN 0
    ELSE CHAIN_PENALTIES(chain_info.stage)

has_deps_offchain(url_info) == url_info.present /\ url_info.external_dependencies.present /\ ~url_info.external_dependencies.is_fully_onchain

has_external_dependencies(data_report) ==
    /\ data_report.present
    /\ has_deps_offchain(data_report.image) \/ has_deps_offchain(data_report.animation_url)

analyze_permanence(data_report, contract_data_report, chain_info) ==
    LET token_uri == IF data_report.present THEN data_report.token_uri ELSE NoUrlInfo
        image == IF data_report.present THEN data_report.image ELSE NoUrlInfo
        animation_url == IF data_report.present THEN data_report.animation_url ELSE NoUrlInfo
        contract_uri == IF contract_data_report.present THEN contract_data_report.contract_uri ELSE NoUrlInfo
        metadata_score == get_url_protocol_score(token_uri)
        image_score == get_url_protocol_score(image)
        animation_score == get_url_protocol_score(animation_url)
        contract_metadata_score == get_url_protocol_score(contract_uri)
        gated_image_score == gate(metadata_score, image_score)
        gated_animation_score == gate(metadata_score, animation_score)
        contract_uri_score == get_url_protocol_score(contract_uri)
        gated_contract_score == gate(contract_uri_score, contract_metadata_score)
        token_components == (IF gated_image_score > 0 THEN <<gated_image_score>> ELSE <<>>) \o (IF gated_animation_score > 0 THEN <<gated_animation_score>> ELSE <<>>)
        token_score == CASE Len(token_components) = 0 -> 0
                         [] Len(token_components) = 1 -> 20 * token_components[1]
                         [] Len(token_components) = 2 -> 10 * (token_components[1] + token_components[2])
        base_score == IF gated_contract_score > 0 THEN (9 * token_score) \div 10 + 2 * gated_contract_score ELSE token_score
        chain_penalty == calculate_chain_penalty(chain_info)
        adjusted_score == base_score - 2 * chain_penalty
        scores == <<[k |-> "metadata", score |-> metadata_score]>>
                  \o (IF gated_image_score > 0 THEN <<[k |-> "image", score |-> gated_image_score]>> ELSE <<>>)
                  \o (IF gated_animation_score > 0 THEN <<[k |-> "animation", score |-> gated_animation_score]>> ELSE <<>>)
                  \o (IF gated_contract_score > 0 THEN <<[k |-> "contract_metadata", score |-> gated_contract_score]>> ELSE <<>>)
        weakest == CHOOSE i \in 1..Len(scores) : \A j \in 1..Len(scores) : scores[i].score < scores[j].score \/ (scores[i].score = scores[j].score /\ i <= j)
    IN  [overall_score |-> max(0, min(10, round(adjusted_score, 20))),
         metadata_score |-> metadata_score,
         image_score |-> gated_image_score,
         animation_score |-> gated_animation_score,
         contract_metadata_score |-> gated_contract_score,
         chain_penalty |-> chain_penalty,
         is_fully_onchain |-> (metadata_score = 10 /\ (image_score = 0 \/ image_score = 10) /\ (animation_score = 0 \/ animation_score = 10)),
         has_external_deps |-> has_external_dependencies(data_report),
         weakest_component |-> scores[weakest].k,
         protocol_breakdown |-> [metadata |-> get_url_protocol_name(token_uri), image |-> get_url_protocol_name(image), animation |-> get_url_protocol_name(animation_url), contract_metadata |-> get_url_protocol_name(contract_uri)]]

\* the url_infos of a token: a protocol, and for an inline SVG or HTML
\* document the report of its dependencies
UrlInfo(protocol, external_dependencies) == [present |-> TRUE, protocol |-> protocol, external_dependencies |-> external_dependencies]
Dependencies(report) == [present |-> TRUE, is_fully_onchain |-> report.is_fully_onchain, min_protocol_score |-> report.min_protocol_score]

UrlInfos ==
    {UrlInfo(protocol, NoDependencies) : protocol \in {"data", "ar", "ipfs", "https", "http", "none"}}
    \cup {UrlInfo("data", Dependencies(calculate_dependency_score(resources))) : resources \in {<<>>, <<"https">>, <<"ipfs", "data">>}}
    \cup {UrlInfo("data", Dependencies(DependencyReport(FALSE, 0, "unknown", <<>>)))}

DataReports == {[present |-> FALSE]} \cup {[present |-> TRUE, token_uri |-> t, image |-> i, animation_url |-> a] : t \in UrlInfos, i \in UrlInfos \cup {NoUrlInfo}, a \in {UrlInfo("data", NoDependencies), UrlInfo("ar", NoDependencies), UrlInfo("https", NoDependencies), NoUrlInfo}}

ContractDataReports == {[present |-> FALSE]} \cup {[present |-> TRUE, contract_uri |-> c] : c \in {UrlInfo("data", NoDependencies), UrlInfo("ar", NoDependencies), UrlInfo("https", NoDependencies), UrlInfo("none", NoDependencies)}}

\* chain_provider.get_chain_info(self.chain_id) of inspect_token: None for a
\* chain id that the registry does not list; stage is what the L2Beat table
\* holds for the chain id (None: no entry, or an entry without stage)
RegisteredChains == {1, 10, 11155111}
Testnets == {11155111}
InspectedChains == RegisteredChains \cup {999}
Stages(inspected_chain) == IF inspected_chain = 10 THEN {"Stage 2", "Stage 1", "Stage 0", "NotApplicable", None} ELSE {None}

get_current_chain_info(inspected_chain, stage) ==
    IF inspected_chain \in RegisteredChains
    THEN [present |-> TRUE, chainId |-> inspected_chain, isTestnet |-> inspected_chain \in Testnets, stage |-> stage]
    ELSE NoChainInfo

AnalyzePermanence ==
    /\ last_call = NoCall
    /\ \E data_report \in DataReports, contract_data_report \in ContractDataReports, inspected_chain \in InspectedChains :
          \E stage \in Stages(inspected_chain) :
             LET chain_info == get_current_chain_info(inspected_chain, stage)
             IN  last_call' = [fn |-> "_analyze_permanence", data_report |-> data_report,
                               contract_data_report |-> contract_data_report,
                               inspected_chain |-> inspected_chain, chain_info |-> chain_info,
                               result |-> analyze_permanence(data_report, contract_data_report, chain_info)]
    /\ Frame({"call"})

\* the protocol score of a component as the spec gives it: 0 when absent,
\* else the table score, gated by the least score of its dependencies when
\* it has a report that is not fully on-chain
ComponentScore(url_info) ==
    IF ~url_info.present THEN 0
    ELSE IF url_info.external_dependencies.present /\ ~url_info.external_dependencies.is_fully_onchain /\ url_info.external_dependencies.min_protocol_score < ScoreAsStated(url_info.protocol)
    THEN url_info.external_dependencies.min_protocol_score
    ELSE ScoreAsStated(url_info.protocol)

ImageOf(c) == IF c.data_report.present THEN c.data_report.image ELSE NoUrlInfo
AnimationOf(c) == IF c.data_report.present THEN c.data_report.animation_url ELSE NoUrlInfo
TokenUriOf(c) == IF c.data_report.present THEN c.data_report.token_uri ELSE NoUrlInfo
ContractUriOf(c) == IF c.contract_data_report.present THEN c.contract_data_report.contract_uri ELSE NoUrlInfo

\* C17: in every permanence record image_score and animation_score are each
\* min(own protocol score, metadata_score), hence at most metadata_score,
\* for every combination of protocols and dependency reports.
C17_GatedByMetadata ==
    last_call.fn = "_analyze_permanence" =>
        LET r == last_call.result
        IN  /\ r.metadata_score = ComponentScore(TokenUriOf(last_call))
            /\ r.image_score <= r.metadata_score
            /\ r.animation_score <= r.metadata_score
            /\ r.image_score = (IF ComponentScore(ImageOf(last_call)) <= r.metadata_score THEN ComponentScore(ImageOf(last_call)) ELSE r.metadata_score)
            /\ r.animation_score = (IF ComponentScore(AnimationOf(last_call)) <= r.metadata_score THEN ComponentScore(AnimationOf(last_call)) ELSE r.metadata_score)

C17_Witness ==
    /\ last_call.fn = "_analyze_permanence"
    /\ ComponentScore(ImageOf(last_call)) > last_call.result.metadata_score
    /\ last_call.result.image_score = last_call.result.metadata_score
    /\ last_call.result.metadata_score > 0
    /\ last_call.result.animation_score < last_call.result.metadata_score

\* the stated chain penalty, in tenths, for the chain that is inspected
PenaltyAsStated(c) ==
    IF c.inspected_chain = 1 \/ (c.chain_info.present /\ c.chain_info.isTestnet) THEN 0
    ELSE IF c.chain_info.present /\ c.chain_info.stage = "Stage 2" THEN 5
    ELSE IF c.chain_info.present /\ c.chain_info.stage = "Stage 1" THEN 10
    ELSE IF c.chain_info.present /\ c.chain_info.stage = "Stage 0" THEN 15
    ELSE 20

\* the stated token score and base, in twentieths, from the reported scores
TokenScoreAsStated(r) ==
    IF r.image_score > 0 /\ r.animation_score > 0 THEN 10 * (r.image_score + r.animation_score)
    ELSE IF r.image_score > 0 THEN 20 * r.image_score
    ELSE IF r.animation_score > 0 THEN 20 * r.animation_score
    ELSE 0

BaseAsStated(r) ==
    IF r.contract_metadata_score > 0
    THEN (9 * TokenScoreAsStated(r) + 20 * r.contract_metadata_score) \div 10
    ELSE TokenScoreAsStated(r)

\* score is clamp(n, 0, 10) for an integer n nearest to twentieths / 20
ClampedRound(score, twentieths) ==
    \E n \in -3..11 :
        /\ 20 * n - twentieths <= 10
        /\ twentieths - 20 * n <= 10
        /\ score = (IF n < 0 THEN 0 ELSE IF n > 10 THEN 10 ELSE n)

\* C18: overall_score is clamp(round(base - chain_penalty), 0, 10), with the
\* token score the mean of the non-zero gated image and animation scores,
\* base 0.9 x token score + 0.1 x contract-metadata score when the latter
\* is available and the token score otherwise, and chain_penalty 0.0 for
\* chain id 1 and testnets, otherwise 0.5, 1.0, 1.5 or 2.0 for Stage 2,
\* Stage 1, Stage 0 or an unknown stage.
C18_OverallScore ==
    last_call.fn = "_analyze_permanence" =>
        /\ last_call.result.chain_penalty = PenaltyAsStated(last_call)
        /\ ClampedRound(last_call.result.overall_score, BaseAsStated(last_call.result) - 2 * PenaltyAsStated(last_call))

\* C19: is_fully_onchain is true iff every component that is present for
\* the token (metadata, image, animation, contract metadata) has score 10.
C19_FullyOnchain ==
    last_call.fn = "_analyze_permanence" =>
        (last_call.result.is_fully_onchain <=>
            \A url_info \in {TokenUriOf(last_call), ImageOf(last_call), AnimationOf(last_call), ContractUriOf(last_call)} :
                url_info.present => ComponentScore(url_info) = 10)

(***************************************************************************)
(* TrustAnalyzer._analyze_trustlessness and its three scoring functions    *)
(* (trust_analyzer.py).  The weighted sum is held in tenths.               *)
(***************************************************************************)
\* A mutation of the bonus: the sum is not capped.
add_bonus_uncapped(score, bonus) == score + bonus

\* min(score + 1, 10), min(transparency + 2, 10)
add_bonus(score, bonus) == min(score + bonus, 10)

score_access_control(access_control_info) ==
    IF ~access_control_info.present THEN [score |-> 10, has_owner |-> FALSE, owner_type |-> "none", transparency |-> 10]
    ELSE LET has_owner == access_control_info.has_owner \/ access_control_info.has_roles
             governance_type == access_control_info.governance_type
             by_owner ==
                 CASE ~has_owner -> [owner_type |-> "none", score |-> 10, transparency |-> 10]
                   [] has_owner /\ governance_type = "renounced" -> [owner_type |-> "renounced", score |-> 10, transparency |-> 10]
                   [] has_owner /\ governance_type = "eoa" -> [owner_type |-> "eoa", score |-> 3, transparency |-> 2]
                   [] has_owner /\ governance_type = "multisig" -> [owner_type |-> "multisig", score |-> 6, transparency |-> 6]
                   [] has_owner /\ governance_type = "timelock" -> [owner_type |-> "timelock", score |-> 8, transparency |-> 8]
                   [] has_owner /\ governance_type = "contract" -> [owner_type |-> "contract", score |-> 5, transparency |-> 4]
                   [] OTHER -> [owner_type |-> "unknown", score |-> 4, transparency |-> 3]
             bonus == CASE access_control_info.access_control_type = "access_control" -> 1
                        [] access_control_info.access_control_type = "timelock" -> 2
                        [] OTHER -> 0
         IN  [score |-> add_bonus(by_owner.score, bonus), has_owner |-> has_owner, owner_type |-> by_owner.owner_type,
              transparency |-> IF bonus > 0 THEN add_bonus(by_owner.transparency, 2) ELSE by_owner.transparency]

score_governance_type(access_control_info) ==
    IF ~access_control_info.present THEN 10
    ELSE IF ~(access_control_info.has_owner \/ access_control_info.has_roles) THEN 10
    ELSE IF access_control_info.governance_type = None THEN 8
    ELSE CASE access_control_info.governance_type = "renounced" -> 10
           [] access_control_info.governance_type = "timelock" -> 7
           [] access_control_info.governance_type = "multisig" -> 5
           [] access_control_info.governance_type = "contract" -> 3
           [] access_control_info.governance_type = "eoa" -> 2
           [] access_control_info.governance_type = "unknown" -> 1
           [] OTHER -> 5

score_upgradeability(proxy) ==
    IF ~proxy.present THEN [score |-> 10, is_upgradeable |-> FALSE, proxy_type |-> None]
    ELSE IF ~proxy.is_proxy THEN [score |-> 10, is_upgradeable |-> FALSE, proxy_type |-> None]
    ELSE IF ~proxy.is_upgradeable THEN [score |-> 8, is_upgradeable |-> FALSE, proxy_type |-> proxy.proxy_standard]
    ELSE [score |-> CASE proxy.proxy_standard = "EIP-1167-Minimal" -> 8
                      [] proxy.proxy_standard = "EIP-1822-UUPS" -> 4
                      [] proxy.proxy_standard = "EIP-1967-Transparent" -> 5
                      [] proxy.proxy_standard = "Beacon" -> 4
                      [] proxy.proxy_standard = "EIP-2535-Diamond" -> 3
                      [] proxy.proxy_standard = "Custom" -> 4
                      [] proxy.proxy_standard = "not_proxy" -> 10
                      [] OTHER -> 4,
          is_upgradeable |-> TRUE, proxy_type |-> proxy.proxy_standard]

analyze_trustlessness(access_control_info, proxy) ==
    LET access == score_access_control(access_control_info)
        governance_score == score_governance_type(access_control_info)
        upgradeability == score_upgradeability(proxy)
    IN  [overall_score |-> round(5 * access.score + 3 * upgradeability.score + 2 * governance_score, 10),
         access_control_score |-> access.score,
         governance_score |-> governance_score,
         upgradeability_score |-> upgradeability.score,
         has_owner |-> access.has_owner,
         owner_type |-> access.owner_type,
         is_upgradeable |-> upgradeability.is_upgradeable,
         proxy_type |-> upgradeability.proxy_type,
         governance_transparency |-> access.transparency]

AccessControlInfos ==
    {[present |-> FALSE]} \cup
    {[present |-> TRUE, has_owner |-> o, has_roles |-> r, governance_type |-> g, access_control_type |-> t] :
        o \in BOOLEAN, r \in BOOLEAN,
        g \in {"renounced", "eoa", "multisig", "timelock", "contract", "unknown", None},
        t \in {"none", "ownable", "role_based", "access_control", "timelock"}}

ProxyInfos ==
    {[present |-> FALSE], [present |-> TRUE, is_proxy |-> FALSE, proxy_standard |-> "not_proxy", is_upgradeable |-> FALSE]} \cup
    {[present |-> TRUE, is_proxy |-> TRUE, proxy_standard |-> s, is_upgradeable |-> u] :
        s \in {"EIP-1167-Minimal", "EIP-1822-UUPS", "EIP-1967-Transparent", "Beacon", "EIP-2535-Diamond", "Custom", "EIP-897"},
        u \in BOOLEAN}

AnalyzeTrustlessness ==
    /\ last_call = NoCall
    /\ \E access_control_info \in AccessControlInfos, proxy \in ProxyInfos :
          last_call' = [fn |-> "_analyze_trustlessness", access_control_info |-> access_control_info,
                        proxy_info |-> proxy, result |-> analyze_trustlessness(access_control_info, proxy)]
    /\ Frame({"call"})

\* C20: trustlessness.overall_score is round(0.7 x access_control_score +
\* 0.3 x upgradeability_score), an integer nearest to that sum, for every
\* access-control record and proxy record; no other sub-score enters.
C20_TrustlessnessScore ==
    last_call.fn = "_analyze_trustlessness" =>
        LET tenths == 7 * last_call.result.access_control_score + 3 * last_call.result.upgradeability_score
        IN  /\ 10 * last_call.result.overall_score - tenths <= 5
            /\ tenths - 10 * last_call.result.overall_score <= 5

\* the stated upgradeability score of a proxy record (0: nothing stated)
UpgradeabilityAsStated(proxy) ==
    IF ~proxy.present \/ ~proxy.is_proxy THEN 10
    ELSE IF proxy.proxy_standard = "EIP-1167-Minimal" THEN 9
    ELSE IF ~proxy.is_upgradeable THEN 10
    ELSE CASE proxy.proxy_standard = "EIP-1967-Transparent" -> 3
           [] proxy.proxy_standard \in {"EIP-1822-UUPS", "Beacon", "EIP-2535-Diamond", "Custom"} -> 2
           [] OTHER -> 0

\* C21: upgradeability_score is 10 when the contract is not a proxy or is a
\* non-upgradeable proxy, 9 for a minimal proxy, 3 for an upgradeable
\* transparent proxy and 2 for upgradeable UUPS, beacon, diamond and custom
\* proxies.
C21_UpgradeabilityScore ==
    last_call.fn = "_analyze_trustlessness" /\ UpgradeabilityAsStated(last_call.proxy_info) > 0 =>
        last_call.result.upgradeability_score = UpgradeabilityAsStated(last_call.proxy_info)

(***************************************************************************)
(* TrustAnalyzer.analyze_token_trust: the three analyses, the weighted     *)
(* overall score and its level.  The assumptions, recommendations, risks   *)
(* and strengths are lists of texts derived from the three records and are *)
(* not held here.                                                          *)
(***************************************************************************)
\* L2BEAT_STAGE_SCORES.get(l2beat_stage, 2)
L2BEAT_STAGE_SCORES(stage) ==
    CASE stage = "Stage 2" -> 10
      [] stage = "Stage 1" -> 7
      [] stage = "Stage 0" -> 4
      [] OTHER -> 2

analyze_chain_trust(chain_info) ==
    LET l2beat_stage == IF chain_info.present THEN chain_info.stage ELSE None
    IN  [chain_id |-> IF chain_info.present THEN chain_info.chainId ELSE 1,
         is_testnet |-> IF chain_info.present THEN chain_info.isTestnet ELSE FALSE,
         l2beat_stage |-> l2beat_stage,
         stage_score |-> L2BEAT_STAGE_SCORES(l2beat_stage)]

\* A mutation of the weights: permanence and trustlessness swapped.
overall_raw_swapped(permanence_score, trustlessness_score) == 3 * permanence_score + 7 * trustlessness_score

\* permanence.overall_score * 0.7 + trustlessness.overall_score * 0.3, in tenths
overall_raw(permanence_score, trustlessness_score) == 7 * permanence_score + 3 * trustlessness_score

\* round(overall_raw) on the float: the double computed for 0.7 * 7 + 0.3 * 2
\* lies below 5.5, all other sums of scores in 0..10 round as the exact value
round_overall(permanence_score, trustlessness_score) ==
    IF permanence_score = 7 /\ trustlessness_score = 2 THEN 5
    ELSE round(overall_raw(permanence_score, trustlessness_score), 10)

score_to_trust_level(score) ==
    IF score >= 9 THEN "excellent"
    ELSE IF score >= 7 THEN "good"
    ELSE IF score >= 5 THEN "moderate"
    ELSE IF score >= 3 THEN "poor"
    ELSE "critical"

analyze_token_trust(data_report, contract_data_report, access_control_info, proxy, chain_info) ==
    LET permanence == analyze_permanence(data_report, contract_data_report, chain_info)
        trustlessness == analyze_trustlessness(access_control_info, proxy)
        chain_trust == analyze_chain_trust(chain_info)
        overall_score == max(0, min(10, round_overall(permanence.overall_score, trustlessness.overall_score)))
    IN  [overall_score |-> overall_score,
         overall_level |-> score_to_trust_level(overall_score),
         permanence |-> permanence,
         trustlessness |-> trustlessness,
         chain_trust |-> chain_trust]

\* the token_infos of AnalyzeTokenTrust: a choice of the records above that
\* spreads both overall scores over their range
TrustedDataReports ==
    {[present |-> FALSE]} \cup
    {[present |-> TRUE, token_uri |-> UrlInfo(t, NoDependencies), image |-> i, animation_url |-> a] :
        t \in {"data", "ar", "https"},
        i \in {UrlInfo("data", NoDependencies), UrlInfo("ipfs", NoDependencies), UrlInfo("http", NoDependencies), UrlInfo("data", Dependencies(calculate_dependency_score(<<"ipns">>)))},
        a \in {NoUrlInfo, UrlInfo("ar", NoDependencies)}}

TrustedAccessControlInfos ==
    {[present |-> FALSE]} \cup
    {[present |-> TRUE, has_owner |-> TRUE, has_roles |-> FALSE, governance_type |-> g, access_control_type |-> t] :
        g \in {"renounced", "eoa", "multisig", "unknown"}, t \in {"ownable", "timelock"}}

TrustedProxyInfos == {proxy \in ProxyInfos : proxy.present => proxy.proxy_standard \in {"not_proxy", "EIP-1167-Minimal", "EIP-2535-Diamond"}}

AnalyzeTokenTrust ==
    /\ last_call = NoCall
    /\ \E data_report \in TrustedDataReports, contract_data_report \in {c \in ContractDataReports : c.present => c.contract_uri.protocol \in {"data", "https"}}, inspected_chain \in InspectedChains :
          \E stage \in Stages(inspected_chain), access_control_info \in TrustedAccessControlInfos, proxy \in TrustedProxyInfos :
             LET chain_info == get_current_chain_info(inspected_chain, stage)
             IN  last_call' = [fn |-> "analyze_token_trust", data_report |-> data_report,
                               contract_data_report |-> contract_data_report,
                               inspected_chain |-> inspected_chain, chain_info |-> chain_info,
                               access_control_info |-> access_control_info, proxy_info |-> proxy,
                               result |-> analyze_token_trust(data_report, contract_data_report, access_control_info, proxy, chain_info)]
    /\ Frame({"call"})

LevelAsStated(score) ==
    CASE score >= 9 -> "excellent"
      [] score \in {7, 8} -> "good"
      [] score \in {5, 6} -> "moderate"
      [] score \in {3, 4} -> "poor"
      [] score < 3 -> "critical"

\* C22: the top-level overall_score is clamp(round(0.7 x permanence overall
\* + 0.3 x trustlessness overall), 0, 10), an integer nearest to the sum,
\* and overall_level is its band: excellent from 9, good for 7..8, moderate
\* for 5..6, poor for 3..4, critical below 3.
C22_OverallScoreAndLevel ==
    last_call.fn = "analyze_token_trust" =>
        LET r == last_call.result
            tenths == 7 * r.permanence.overall_score + 3 * r.trustlessness.overall_score
        IN  /\ \E n \in 0..10 : 10 * n - tenths <= 5 /\ tenths - 10 * n <= 5 /\ r.overall_score = n
            /\ r.overall_level = LevelAsStated(r.overall_score)

C22_Witness ==
    /\ last_call.fn = "analyze_token_trust"
    /\ last_call.result.permanence.overall_score + 3 <= last_call.result.trustlessness.overall_score
    /\ last_call.result.overall_score < last_call.result.trustlessness.overall_score
    /\ last_call.result.overall_score > last_call.result.permanence.overall_score
    /\ last_call.result.overall_level = "moderate"

Score == 0..10

\* C23: every integer score field of a trust analysis result lies in 0..10:
\* overall_score, the permanence overall and component scores, the
\* trustlessness overall, access-control, governance and upgradeability
\* scores, governance_transparency and the chain stage_score.
C23_ScoresInRange ==
    /\ last_call.fn = "_analyze_permanence" =>
          /\ last_call.result.overall_score \in Score
          /\ last_call.result.metadata_score \in Score
          /\ last_call.result.image_score \in Score
          /\ last_call.result.animation_score \in Score
          /\ last_call.result.contract_metadata_score \in Score
    /\ last_call.fn = "_analyze_trustlessness" =>
          /\ last_call.result.overall_score \in Score
          /\ last_call.result.access_control_score \in Score
          /\ last_call.result.governance_score \in Score
          /\ last_call.result.upgradeability_score \in Score
          /\ last_call.result.governance_transparency \in Score
    /\ last_call.fn = "analyze_token_trust" =>
          /\ last_call.result.overall_score \in Score
          /\ last_call.result.chain_trust.stage_score \in Score
          /\ \A f \in {"overall_score", "metadata_score", "image_score", "animation_score", "contract_metadata_score"} : last_call.result.permanence[f] \in Score
          /\ \A f \in {"overall_score", "access_control_score", "governance_score", "upgradeability_score", "governance_transparency"} : last_call.result.trustlessness[f] \in Score

\* a result whose access-control bonus met the cap, and one whose chain
\* penalty brought the permanence score down to the floor
C23_Witness ==
    /\ last_call.fn = "analyze_token_trust"
    /\ last_call.access_control_info.present
    /\ last_call.access_control_info.governance_type = "renounced"
    /\ last_call.access_control_info.access_control_type = "timelock"
    /\ last_call.result.trustlessness.access_control_score = 10
    /\ last_call.result.permanence.overall_score = 0
    /\ last_call.result.permanence.chain_penalty > 0
    /\ last_call.result.permanence.metadata_score > 0

(***************************************************************************)
(* AccessControlDetector._analyze_batch_results with the look at the       *)
(* control addresses (access_control_detector.py).  `world` gives for each *)
(* non-zero address what the chain answers: get_code (its length in bytes, *)
(* or an error), getMinDelay() and getThreshold().  An Optional[int] is    *)
(* the empty sequence or the sequence of the one value.                    *)
(***************************************************************************)
ControlAddresses == {"0xA", "0xB"}

\* the delay that getMinDelay() of an address returns when it succeeds
MinDelay == [0xA |-> 172800, 0xB |-> 0]

AddressKinds ==
    {[get_code |-> "raises", code_len |-> 0, getMinDelay |-> FALSE, getThreshold |-> FALSE]}
    \cup {[get_code |-> "bytes", code_len |-> n, getMinDelay |-> FALSE, getThreshold |-> FALSE] : n \in {0, 2}}
    \cup {[get_code |-> "bytes", code_len |-> 3, getMinDelay |-> d, getThreshold |-> t] : d \in BOOLEAN, t \in BOOLEAN}

\* __get_timelock_delay: result.result if result.success else None
get_timelock_delay(address, world) ==
    IF address \in ControlAddresses /\ world[address].getMinDelay THEN <<MinDelay[address]>> ELSE <<>>

\* _quick_multisig_check: result.success
quick_multisig_check(address, world) == address \in ControlAddresses /\ world[address].getThreshold

\* _classify_governance_from_address, the look at the address included
classify_governance(address, world) ==
    IF address \in {None, "zero"} THEN "unknown"
    ELSE IF world[address].get_code = "raises" THEN "unknown"
    ELSE IF world[address].code_len <= 2 THEN "eoa"
    ELSE IF get_timelock_delay(address, world) # <<>> THEN "timelock"
    ELSE IF quick_multisig_check(address, world) THEN "multisig"
    ELSE "contract"

\* the address that _classify_access_control hands to
\* _classify_governance_from_address (None: it hands over none)
classified_address(owner_address, admin_address, has_access_control, owner_function_exists, admin_function_exists) ==
    IF has_access_control THEN or_else(admin_address, owner_address)
    ELSE IF owner_function_exists THEN (IF owner_address \notin {None, "zero"} THEN owner_address ELSE None)
    ELSE IF admin_function_exists /\ admin_address \notin {None, "zero"} THEN admin_address
    ELSE None

get_primary_control_address(owner_address, admin_address) ==
    IF owner_address \notin {None, "zero"} THEN owner_address
    ELSE IF admin_address \notin {None, "zero"} THEN admin_address
    ELSE None

analyze_batch_results(owner_result, admin_result, has_access_control, has_enumerable_access_control, role_member, world) ==
    LET owner_address == result_or_none(owner_result)
        admin_address == result_or_none(admin_result)
        address == classified_address(owner_address, admin_address, has_access_control, owner_result # "failure", admin_result # "failure")
        classified == classify_access_control(owner_address, admin_address, has_access_control, owner_result # "failure", admin_result # "failure", IF address \in ControlAddresses THEN classify_governance(address, world) ELSE "unknown")
        role_admin_address == IF has_enumerable_access_control /\ classified[1] = "role_based" THEN result_or_none(role_member) ELSE None
        primary_address == or_else(role_admin_address, get_primary_control_address(owner_address, admin_address))
    IN  [access_control_type |-> classified[1],
         governance_type |-> classified[2],
         has_owner |-> owner_address \notin {None, "zero"},
         owner_address |-> primary_address,
         has_roles |-> has_access_control,
         admin_address |-> IF or_else(role_admin_address, admin_address) \notin {None, "zero"} THEN or_else(role_admin_address, admin_address) ELSE None,
         timelock_delay |-> IF classified[2] = "timelock" /\ primary_address # None THEN get_timelock_delay(primary_address, world) ELSE <<>>]

AnalyzeAccessControl ==
    /\ last_call = NoCall
    /\ \E owner_result \in {"failure", "zero", "0xA"}, admin_result \in {"failure", "zero", "0xB"}, has_access_control \in BOOLEAN :
          \E has_enumerable_access_control \in (IF has_access_control THEN BOOLEAN ELSE {FALSE}), world \in [ControlAddresses -> AddressKinds] :
             \E role_member \in (IF has_enumerable_access_control THEN {"failure", "0xA", "0xB"} ELSE {"failure"}) :
                last_call' = [fn |-> "analyze_access_control", owner_result |-> owner_result, admin_result |-> admin_result,
                              has_access_control |-> has_access_control, role_member |-> role_member, world |-> world,
                              address |-> classified_address(result_or_none(owner_result), result_or_none(admin_result), has_access_control, owner_result # "failure", admin_result # "failure"),
                              result |-> analyze_batch_results(owner_result, admin_result, has_access_control, has_enumerable_access_control, role_member, world)]
    /\ Frame({"call"})

\* the governance type of a non-zero control address by the stated checks
GovernanceAsStated(kind) ==
    IF kind.code_len = 0 THEN "eoa"
    ELSE IF kind.getMinDelay THEN "timelock"
    ELSE IF kind.getThreshold THEN "multisig"
    ELSE "contract"

\* C26: for a non-zero control address whose code can be read, the
\* governance type is eoa for empty bytecode, else timelock when
\* getMinDelay() succeeds, with timelock_delay the delay that this same
\* address returned, else multisig when getThreshold() succeeds, else
\* contract; an address answering both calls is a timelock.
C26_GovernanceChecks ==
    (/\ last_call.fn = "analyze_access_control"
     /\ last_call.address \in ControlAddresses
     /\ last_call.world[last_call.address].get_code = "bytes") =>
        /\ last_call.result.governance_type = GovernanceAsStated(last_call.world[last_call.address])
        /\ last_call.result.governance_type = "timelock" => last_call.result.timelock_delay = <<MinDelay[last_call.address]>>

\* ---- api/routes/analysis.py with api/database.py: the analysis cache ----
StoredAddresses == {"0xAb", "0xab"}

NoTrustAnalysis == [present |-> FALSE, overall_score |-> 0, chain_id |-> 0]

\* Web3.to_checksum_address on the text of an address
checksum_address(address) == IF lower(address) = "0xab" THEN "0xAb" ELSE address

\* the chain id under which store_nft_analysis files the analysis
\* (database.py:83, blob.py:127)
stored_chain_id(token_info) == IF token_info.trust_analysis.present THEN token_info.trust_analysis.chain_id ELSE 1

\* dependencies.py: validate_address, on a well-formed address
validate_address(address) == checksum_address(address)

\* database.py: _get_nft_key (46-51)
get_nft_key(chain, contract_address, token_id) == <<chain, checksum_address(contract_address), token_id>>

\* the TokenInfo of NFTInspector(chain_id=chain).inspect_token (client.py
\* 196-217): trust_analysis stays None when the analysis raised
inspected_token_info(chain, contract_address, token_id, trust_raised) ==
    [contract_address |-> contract_address, token_id |-> token_id,
     trust_analysis |-> IF trust_raised THEN NoTrustAnalysis
                        ELSE [present |-> TRUE, overall_score |-> 7, chain_id |-> analyze_chain_trust(get_current_chain_info(chain, None)).chain_id]]

EmptyDatabase == <<>>

\* database.py: store_nft_analysis (69-132), by the key it writes
store_nft_analysis(db, token_info) ==
    (get_nft_key(stored_chain_id(token_info), token_info.contract_address, token_info.token_id) :> token_info) @@ db

\* database.py: get_nft_analysis (134-165); <<>> for None
get_nft_analysis(db, chain, contract_address, token_id) ==
    LET nft_key == get_nft_key(chain, contract_address, token_id)
    IN  IF nft_key \in DOMAIN db THEN <<db[nft_key]>> ELSE <<>>

\* routes/analysis.py: analyze_nft (19-43)
analyze_nft(db, chain, address, token_id, force_refresh, trust_raised) ==
    LET contract_address == validate_address(address)
        existing == get_nft_analysis(db, chain, contract_address, token_id)
        token_info == inspected_token_info(chain, contract_address, token_id, trust_raised)
    IN  IF ~force_refresh /\ existing # <<>>
        THEN [status |-> 200, from_storage |-> TRUE, inspected |-> FALSE, db |-> db]
        ELSE [status |-> 200, from_storage |-> FALSE, inspected |-> TRUE, db |-> store_nft_analysis(db, token_info)]

\* routes/analysis.py: get_nft_analysis (46-61)
get_nft_analysis_route(db, chain, address, token_id) ==
    IF get_nft_analysis(db, chain, validate_address(address), token_id) # <<>>
    THEN [status |-> 200, from_storage |-> TRUE, inspected |-> FALSE, db |-> db]
    ELSE [status |-> 404, from_storage |-> FALSE, inspected |-> FALSE, db |-> db]

\* POST /analyze on an empty cache, then a lookup of the same NFT
AnalyzeThenLookup ==
    /\ last_call = NoCall
    /\ \E chain \in RegisteredChains, address \in StoredAddresses, later_address \in StoredAddresses, force_refresh \in BOOLEAN, trust_raised \in BOOLEAN, by_get \in BOOLEAN :
          LET first == analyze_nft(EmptyDatabase, chain, address, 1, force_refresh, trust_raised)
              second == IF by_get THEN get_nft_analysis_route(first.db, chain, later_address, 1)
                        ELSE analyze_nft(first.db, chain, later_address, 1, FALSE, trust_raised)
          IN  last_call' = [fn |-> "analyze_then_lookup", chain_id |-> chain, address |-> address,
                            later_address |-> later_address, trust_raised |-> trust_raised, by_get |-> by_get,
                            first |-> [status |-> first.status, from_storage |-> first.from_storage, inspected |-> first.inspected],
                            second |-> [status |-> second.status, from_storage |-> second.from_storage, inspected |-> second.inspected]]
    /\ Frame({"call"})

\* C30: after POST /analyze has inspected and stored an NFT, a later lookup
\* of the same chain id, address (in any letter case) and token id, by GET or
\* by POST without force_refresh, returns the stored analysis with
\* from_storage true and neither inspects nor stores again.
C30_StoreThenLookup ==
    (last_call.fn = "analyze_then_lookup" /\ last_call.first.inspected) =>
        /\ last_call.second.status = 200
        /\ last_call.second.from_storage
        /\ ~last_call.second.inspected

InitCalls == last_call = NoCall /\ Idle({"call"})

NextCalls ==
    \/ FetchTokenUri
    \/ AnalyzeBatchResults
    \/ CheckErc721Compliance
    \/ ExtractProtocol
    \/ AnalyzeHtmlContent
    \/ AnalyzePermanence
    \/ AnalyzeTrustlessness
    \/ AnalyzeTokenTrust
    \/ AnalyzeAccessControl
    \/ AnalyzeThenLookup

SpecCalls == InitCalls /\ [][NextCalls]_vars


-----------------------------------------------------------------------------
(***************************************************************************)
(* api/database/__init__.py: DatabaseSingleton.  The callers are coroutines *)
(* of one asyncio event loop: a coroutine runs on the loop's thread until   *)
(* it awaits an operation that suspends, and `with self._lock` on a         *)
(* threading.Lock that is held makes the thread itself wait.  An action is  *)
(* the code between two suspensions.                                        *)
(***************************************************************************)
\* await self._database_manager.initialize() at 69 is in flight in caller c
Initializing(c) == callerPc[c] = "initializing"

\* get_manager (39-55) with _initialize_lazy (57-77), from the call up to the
\* first suspension, or to the return when nothing suspends.  `with
\* self._lock:` at 59 on a lock that a suspended coroutine holds makes the
\* loop's thread wait for it.
GetManager(c, config_valid) ==
    /\ loop_thread = Nobody
    /\ callerPc[c] \in {"idle", "returned", "raised"}
    /\ get_manager_calls < MaxCalls
    /\ get_manager_calls' = get_manager_calls + 1
    /\ IF initialized
         THEN \* 49 is false; 52-55
              /\ callerPc' = [callerPc EXCEPT ![c] = IF database_manager = NoManager THEN "raised" ELSE "returned"]
              /\ received' = [received EXCEPT ![c] = database_manager]
              /\ UNCHANGED <<lock, initialized, database_manager, loop_thread, initialize_runs, failures>>
         ELSE IF lock # Nobody
         THEN \* 59 waits
              /\ loop_thread' = c
              /\ callerPc' = [callerPc EXCEPT ![c] = "blocked"]
              /\ UNCHANGED <<lock, initialized, database_manager, received, initialize_runs, failures>>
         ELSE IF config_valid
         THEN \* 59-68, and 69 up to the suspension
              /\ lock' = c
              /\ database_manager' = initialize_runs + 1
              /\ initialize_runs' = initialize_runs + 1
              /\ callerPc' = [callerPc EXCEPT ![c] = "initializing"]
              /\ UNCHANGED <<initialized, received, loop_thread, failures>>
         ELSE \* 64-68 raises: 73-77, the lock is taken and released
              /\ database_manager' = NoManager
              /\ initialized' = FALSE
              /\ callerPc' = [callerPc EXCEPT ![c] = "raised"]
              /\ UNCHANGED <<lock, received, loop_thread, initialize_runs, failures>>
    /\ Frame({"singleton"})

\* initialize() returns: 70-71, the lock is released, then 52-55
InitializeReturns(c) ==
    /\ loop_thread = Nobody
    /\ Initializing(c)
    /\ initialized' = TRUE
    /\ lock' = Nobody
    /\ callerPc' = [callerPc EXCEPT ![c] = "returned"]
    /\ received' = [received EXCEPT ![c] = database_manager]
    /\ UNCHANGED <<database_manager, loop_thread, initialize_runs, failures, get_manager_calls>>
    /\ Frame({"singleton"})

\* initialize() raises: 73-77, the lock is released, RuntimeError leaves
\* get_manager
InitializeRaises(c) ==
    /\ loop_thread = Nobody
    /\ Initializing(c)
    /\ database_manager' = NoManager
    /\ initialized' = FALSE
    /\ lock' = Nobody
    /\ callerPc' = [callerPc EXCEPT ![c] = "raised"]
    /\ failures' = failures + 1
    /\ UNCHANGED <<received, loop_thread, initialize_runs, get_manager_calls>>
    /\ Frame({"singleton"})

InitSingleton == Idle({})

NextSingleton ==
    \/ \E c \in Callers, config_valid \in BOOLEAN : GetManager(c, config_valid)
    \/ \E c \in Callers : InitializeReturns(c)
    \/ \E c \in Callers : InitializeRaises(c)

\* the event loop resumes a coroutine whose awaited operation has finished
\* whenever its thread is free
SpecSingleton == InitSingleton /\ [][NextSingleton]_vars /\ \A c \in Callers : WF_vars(InitializeReturns(c) \/ InitializeRaises(c))

\* C27: the lazy initialisation is safe under concurrency: initialize() runs
\* once (once more after each failure), at most one run is in flight, every
\* caller that entered get_manager leaves it, the callers that returned hold
\* the one manager, and a failure leaves the singleton uninitialised.
C27_LazyInitialisation ==
    /\ [](initialize_runs <= failures + 1)
    /\ [](Cardinality({c \in Callers : Initializing(c)}) <= 1)
    /\ [](\A c \in Callers : callerPc[c] = "returned" => received[c] = database_manager)
    /\ [][failures' > failures => (~initialized' /\ database_manager' = NoManager)]_vars
    /\ \A c \in Callers : (callerPc[c] \in {"initializing", "blocked"}) ~> (callerPc[c] \in {"returned", "raised"})

-----------------------------------------------------------------------------
(***************************************************************************)
(* api/database/blob.py: BlobManager.  The blobs are the NFT analyses, the  *)
(* leaderboards and the global statistics.  store_nft_analysis awaits the   *)
(* blob service at every read and write; the stores of concurrent requests  *)
(* interleave there; the three attempts on one leaderboard are taken in one *)
(* piece.  _put_blob_json gives False and _get_blob_json gives None while   *)
(* the service is down.                                                     *)
(***************************************************************************)
StoredChains == {1, 10}
StoredTokenIds == {1}
StoredScores == {3, 7}

\* the TokenInfo handed to store_nft_analysis, by the fields it reads
StoredTokenInfos ==
    [contract_address : StoredAddresses, token_id : StoredTokenIds,
     trust_analysis : [present : {TRUE}, overall_score : StoredScores, chain_id : StoredChains] \cup {NoTrustAnalysis}]

\* _get_nft_path (51-55)
get_nft_path(chain, contract_address, token_id) == <<chain, checksum_address(contract_address), token_id>>

\* _get_leaderboard_path (57-64), for a chain id that is not 0
get_leaderboard_path(scope, chain) == IF scope = "global" THEN <<"leaderboard/global", 0>> ELSE <<"leaderboard/chain", chain>>

\* _matches (237-246)
matches(entry, item) ==
    /\ entry.chain_id = item.chain_id
    /\ lower(entry.contract_address) = lower(item.contract_address)
    /\ entry.token_id = item.token_id

\* entries.sort(key=score, reverse=True) (253-254): stable, so an entry goes
\* behind the entries of the same score
RECURSIVE sort_by_score(_)
sort_by_score(entries) ==
    IF entries = <<>> THEN <<>>
    ELSE LET rest == sort_by_score(SubSeq(entries, 1, Len(entries) - 1))
             last == entries[Len(entries)]
             ahead == SelectSeq(rest, LAMBDA x : x.score >= last.score)
             behind == SelectSeq(rest, LAMBDA x : x.score < last.score)
         IN  ahead \o <<last>> \o behind

\* the entries _update_single_leaderboard writes (248-257)
updated_entries(entries, item) ==
    LET kept == SelectSeq(entries, LAMBDA x : ~matches(x, item))
        sorted == sort_by_score(Append(kept, item))
    IN  SubSeq(sorted, 1, min(Len(sorted), LeaderboardCap))

\* _update_single_leaderboard (225-271): up to three attempts of read,
\* change and put; with the service down the three puts give False and the
\* loop ends with the board as it was
update_single_leaderboard(boards, scope, chain, item, service) ==
    LET path == get_leaderboard_path(scope, chain)
    IN  IF service THEN [boards EXCEPT ![path] = updated_entries(boards[path], item)] ELSE boards

\* the LeaderboardEntry of _update_leaderboards (205-214)
leaderboard_item(chain, token_info) ==
    [chain_id |-> chain, contract_address |-> lower(token_info.contract_address),
     token_id |-> token_info.token_id, score |-> token_info.trust_analysis.overall_score]

InFlight(p) == storePc[p] \notin {"idle", "returned_true", "returned_false"}
Completed(p) == storePc[p] = "returned_true"

\* store_nft_analysis (115-145): the put of the analysis
StoreNftAnalysis(p, token_info) ==
    /\ storePc[p] = "idle"
    /\ \A q \in Stores : q < p => storePc[q] # "idle"
    /\ IF service_up
         THEN /\ nft_blobs' = [nft_blobs EXCEPT ![get_nft_path(stored_chain_id(token_info), token_info.contract_address, token_info.token_id)] = <<token_info>>]
              /\ storePc' = [storePc EXCEPT ![p] = IF token_info.trust_analysis.present THEN "global_leaderboard" ELSE "get_stats"]
              /\ storeLocal' = [storeLocal EXCEPT ![p] = [token_info |-> token_info, attempt |-> 0, stats_data |-> DefaultStats]]
              /\ overlapped' = (overlapped \/ \E q \in Stores : InFlight(q))
         ELSE \* 143-144: return False
              /\ storePc' = [storePc EXCEPT ![p] = "returned_false"]
              /\ UNCHANGED <<nft_blobs, storeLocal, overlapped>>
    /\ UNCHANGED <<leaderboards, stats_blob, service_up, outages>>
    /\ Frame({"blob"})

\* _update_leaderboards (195-223): 217 and 220
UpdateSingleLeaderboard(p) ==
    /\ storePc[p] \in {"global_leaderboard", "chain_leaderboard"}
    /\ LET token_info == storeLocal[p].token_info
           chain == stored_chain_id(token_info)
       IN  leaderboards' = update_single_leaderboard(leaderboards, IF storePc[p] = "global_leaderboard" THEN "global" ELSE "chain", chain, leaderboard_item(chain, token_info), service_up)
    /\ storePc' = [storePc EXCEPT ![p] = IF @ = "global_leaderboard" THEN "chain_leaderboard" ELSE "get_stats"]
    /\ UNCHANGED <<nft_blobs, stats_blob, storeLocal, overlapped, service_up, outages>>
    /\ Frame({"blob"})

\* _update_global_stats_blob, 461-466: the read of the statistics
GetGlobalStats(p) ==
    /\ storePc[p] = "get_stats"
    /\ storeLocal' = [storeLocal EXCEPT ![p].stats_data = IF service_up THEN stats_blob ELSE DefaultStats]
    /\ storePc' = [storePc EXCEPT ![p] = "put_stats"]
    /\ UNCHANGED <<nft_blobs, leaderboards, stats_blob, overlapped, service_up, outages>>
    /\ Frame({"blob"})

\* 469-476: the statistics computed from what was read
updated_stats(stats_data, token_info) ==
    [total_analyses |-> stats_data.total_analyses + 1,
     total_score |-> stats_data.total_score + IF token_info.trust_analysis.present THEN token_info.trust_analysis.overall_score ELSE 0]

\* 479-489: the put of the statistics; a put that gives False starts the
\* next of the three attempts, and store_nft_analysis returns True after
\* the loop either way (155-156)
PutGlobalStats(p) ==
    /\ storePc[p] = "put_stats"
    /\ IF service_up
         THEN /\ stats_blob' = updated_stats(storeLocal[p].stats_data, storeLocal[p].token_info)
              /\ storePc' = [storePc EXCEPT ![p] = "returned_true"]
              /\ UNCHANGED storeLocal
         ELSE /\ stats_blob' = stats_blob
              /\ storeLocal' = [storeLocal EXCEPT ![p].attempt = @ + 1]
              /\ storePc' = [storePc EXCEPT ![p] = IF storeLocal[p].attempt + 1 = 3 THEN "returned_true" ELSE "get_stats"]
    /\ UNCHANGED <<nft_blobs, leaderboards, overlapped, service_up, outages>>
    /\ Frame({"blob"})

\* the blob service fails for a while: _put_blob_json gives False (109-113)
\* and _get_blob_json gives None (84-86)
ServiceFails ==
    /\ service_up
    /\ outages < MaxOutages
    /\ service_up' = FALSE
    /\ outages' = outages + 1
    /\ UNCHANGED <<nft_blobs, leaderboards, stats_blob, storePc, storeLocal, overlapped>>
    /\ Frame({"blob"})

ServiceRecovers ==
    /\ ~service_up
    /\ service_up' = TRUE
    /\ UNCHANGED <<nft_blobs, leaderboards, stats_blob, storePc, storeLocal, overlapped, outages>>
    /\ Frame({"blob"})

InitBlob == Idle({})

NextBlob ==
    \/ \E p \in Stores, token_info \in StoredTokenInfos : StoreNftAnalysis(p, token_info)
    \/ \E p \in Stores : UpdateSingleLeaderboard(p)
    \/ \E p \in Stores : GetGlobalStats(p)
    \/ \E p \in Stores : PutGlobalStats(p)
    \/ ServiceFails
    \/ ServiceRecovers

SpecBlob == InitBlob /\ [][NextBlob]_vars

\* no store is under way, and none ever began while another was under way
AfterSequenceOfStores == ~overlapped /\ \A p \in Stores : ~InFlight(p)

\* C28: after any sequence of completed stores every leaderboard has at most
\* one entry per (chain_id, contract_address, token_id), the entry carries
\* the score of the latest store of an analysis with trust analysis for that
\* NFT, the entries are in descending order of score and are at most the cap.
C28_Leaderboards ==
    AfterSequenceOfStores =>
        \A path \in DOMAIN leaderboards :
            LET entries == leaderboards[path]
            IN  /\ \A i, j \in DOMAIN entries : matches(entries[i], entries[j]) => i = j
                /\ \A i \in DOMAIN entries :
                      LET blob == nft_blobs[get_nft_path(entries[i].chain_id, entries[i].contract_address, entries[i].token_id)]
                      IN  (blob # <<>> /\ blob[1].trust_analysis.present) => entries[i].score = blob[1].trust_analysis.overall_score
                /\ \A i, j \in DOMAIN entries : i < j => entries[i].score >= entries[j].score
                /\ Len(entries) <= LeaderboardCap

RECURSIVE SumOfScores(_)
SumOfScores(ps) ==
    IF ps = {} THEN 0
    ELSE LET p == CHOOSE q \in ps : TRUE
             analysis == storeLocal[p].token_info.trust_analysis
         IN  (IF analysis.present THEN analysis.overall_score ELSE 0) + SumOfScores(ps \ {p})

\* C29: once the stores have returned, whatever their interleaving,
\* total_analyses is the number of stores that completed and the score total
\* is the sum of their overall scores (with a blob service that did not fail).
C29_NoLostUpdate ==
    (outages = 0 /\ \A p \in Stores : ~InFlight(p)) =>
        /\ stats_blob.total_analyses = Cardinality({p \in Stores : Completed(p)})
        /\ stats_blob.total_score = SumOfScores({p \in Stores : Completed(p)})

====
